---- MODULE Spec2Model ----
(***************************************************************************)
(* A model of scarlet's normalization-and-tagging pipeline:                *)
(*   indexer.build_index            (solc tree -> contract records)        *)
(*   analyzers.entrypoints          (entrypoint tagger)                    *)
(*   analyzers.sinks                (sink tagger)                          *)
(*   slither_index                  (Slither objects -> contract records)  *)
(*   solc_ast.parse_ast, cli.index  (the index command and its Spinner)    *)
(*                                                                         *)
(* Python str values that the code inspects character by character (source *)
(* text, names, modifiers, paths, signatures) are sequences of one-        *)
(* character strings, so that slicing, lower-casing, whitespace removal,   *)
(* substring search and lexicographic comparison are computed, not         *)
(* assumed.  Values the code only compares for equality (visibility,       *)
(* mutability, tags, kinds) are TLA+ strings.                              *)
(***************************************************************************)
EXTENDS Integers, Sequences, FiniteSets, TLC

VARIABLES
    pc,           \* position in the operation being run
    arg,          \* arguments of a direct call of the slicer
    ret,          \* value returned by that call
    files,        \* build_index: the files in scope, each with its text and tree
    opts,         \* build_index: the entrypoints / sinks switches
    fidx,         \* build_index: index of the next file of the loop
    contracts,    \* list of ContractInfo records
    src_by_file,  \* map path -> source text
    eps,          \* list of EntrypointInfo records
    sks,          \* list of SinkInfo records
    report,       \* the IndexReport returned by build_index
    spinner       \* cli: the Spinner objects created so far, with their threads

vars == <<pc, arg, ret, files, opts, fidx, contracts, src_by_file, eps, sks, report, spinner>>

----------------------------------------------------------------------------
(* Python str primitives over sequences of characters.                     *)

\* Characters in code-point order (str comparison is by code point).
CodePoints ==
    <<"\t", "\n", " ", "!", "#", "$", "%", "&", "'", "(", ")", "*", "+", ",",
      "-", ".", "/", "0", "1", "2", "3", "4", "5", "6", "7", "8", "9", ":",
      ";", "<", "=", ">", "?", "@", "A", "B", "C", "D", "E", "F", "G", "H",
      "I", "J", "K", "L", "M", "N", "O", "P", "Q", "R", "S", "T", "U", "V",
      "W", "X", "Y", "Z", "[", "]", "^", "_", "a", "b", "c", "d", "e",
      "f", "g", "h", "i", "j", "k", "l", "m", "n", "o", "p", "q", "r", "s",
      "t", "u", "v", "w", "x", "y", "z", "{", "|", "}", "~">>

Ord(c) == CHOOSE i \in 1..Len(CodePoints) : CodePoints[i] = c

Uppers ==
    <<"A", "B", "C", "D", "E", "F", "G", "H", "I", "J", "K", "L", "M",
      "N", "O", "P", "Q", "R", "S", "T", "U", "V", "W", "X", "Y", "Z">>

Lowers ==
    <<"a", "b", "c", "d", "e", "f", "g", "h", "i", "j", "k", "l", "m",
      "n", "o", "p", "q", "r", "s", "t", "u", "v", "w", "x", "y", "z">>

LowerOf == [c \in {Uppers[i] : i \in 1..Len(Uppers)} |->
               Lowers[CHOOSE i \in 1..Len(Uppers) : Uppers[i] = c]]

LowerChar(c) == IF c \in DOMAIN LowerOf THEN LowerOf[c] ELSE c

\* str.lower()
Lower(s) == [i \in 1..Len(s) |-> LowerChar(s[i])]

Whitespace == {" ", "\t", "\n"}

IsWs(c) == c \in Whitespace

\* "".join(s.split()) and re.sub(r"\s+", "", s): every whitespace character removed
StripWs(s) == SelectSeq(s, LAMBDA c : ~IsWs(c))

\* m in s
Contains(s, m) ==
    \E i \in 0..(Len(s) - Len(m)) : \A k \in 1..Len(m) : s[i + k] = m[k]

\* s.startswith(p)
StartsWith(s, p) == Len(p) <= Len(s) /\ \A k \in 1..Len(p) : s[k] = p[k]

\* s < t for str
RECURSIVE StrLess(_, _)
StrLess(s, t) ==
    IF t = <<>> THEN FALSE
    ELSE IF s = <<>> THEN TRUE
    ELSE IF s[1] # t[1] THEN Ord(s[1]) < Ord(t[1])
    ELSE StrLess(Tail(s), Tail(t))

\* s.count("\n", 0, end)
CountNewlines(s, end) == Cardinality({i \in 1..end : s[i] = "\n"})

Min(a, b) == IF a <= b THEN a ELSE b

\* the characters of the visibility keywords, for where the code compares
\* them as strings
SeqOfChars(word) ==
    CASE word = "external" -> <<"e", "x", "t", "e", "r", "n", "a", "l">>
      [] word = "public" -> <<"p", "u", "b", "l", "i", "c">>
      [] word = "internal" -> <<"i", "n", "t", "e", "r", "n", "a", "l">>
      [] word = "private" -> <<"p", "r", "i", "v", "a", "t", "e">>
      [] word = "contract" -> <<"c", "o", "n", "t", "r", "a", "c", "t">>
      [] word = "library" -> <<"l", "i", "b", "r", "a", "r", "y">>
      [] word = "interface" -> <<"i", "n", "t", "e", "r", "f", "a", "c", "e">>
      [] word = "error" -> <<"e", "r", "r", "o", "r">>
      [] word = "fatal" -> <<"f", "a", "t", "a", "l">>
      [] word = "warning" -> <<"w", "a", "r", "n", "i", "n", "g">>
      [] word = "info" -> <<"i", "n", "f", "o">>
      [] word = "" -> <<>>

Max(a, b) == IF a >= b THEN a ELSE b

\* sep.join(parts)
RECURSIVE Join(_, _)
Join(sep, parts) ==
    IF parts = <<>> THEN <<>>
    ELSE IF Len(parts) = 1 THEN parts[1]
    ELSE parts[1] \o sep \o Join(sep, Tail(parts))

\* s.strip()
Strip(s) ==
    LET solid == {i \in 1..Len(s) : ~IsWs(s[i])}
    IN  IF solid = {} THEN <<>>
        ELSE SubSeq(s, CHOOSE i \in solid : \A k \in solid : i <= k,
                       CHOOSE i \in solid : \A k \in solid : i >= k)

\* s.split(sep) for a one-character separator
RECURSIVE Split(_, _)
Split(s, sep) ==
    LET at == {i \in 1..Len(s) : s[i] = sep}
    IN  IF at = {} THEN <<s>>
        ELSE LET i == CHOOSE i \in at : \A k \in at : i <= k
             IN  <<SubSeq(s, 1, i - 1)>> \o Split(SubSeq(s, i + 1, Len(s)), sep)

Digits == <<"0", "1", "2", "3", "4", "5", "6", "7", "8", "9">>

DigitSet == {Digits[i] : i \in 1..Len(Digits)}

DigitValue(c) == (CHOOSE i \in 1..Len(Digits) : Digits[i] = c) - 1

RECURSIVE DigitsValue(_)
DigitsValue(ds) ==
    IF ds = <<>> THEN 0
    ELSE DigitsValue(SubSeq(ds, 1, Len(ds) - 1)) * 10 + DigitValue(ds[Len(ds)])

\* int(s): surrounding whitespace, an optional sign, digits with single
\* underscores between them.  ok is FALSE where int() raises ValueError.
IntOf(s) ==
    LET t == Strip(s)
        signed == t # <<>> /\ t[1] \in {"+", "-"}
        body == IF signed THEN Tail(t) ELSE t
        ok == /\ body # <<>>
              /\ \A i \in 1..Len(body) : body[i] \in DigitSet \cup {"_"}
              /\ body[1] # "_"
              /\ body[Len(body)] # "_"
              /\ \A i \in 1..(Len(body) - 1) : ~(body[i] = "_" /\ body[i + 1] = "_")
        magnitude == DigitsValue(SelectSeq(body, LAMBDA c : c \in DigitSet))
    IN  [ok |-> ok,
         val |-> IF ~ok THEN 0 ELSE IF signed /\ t[1] = "-" THEN 0 - magnitude ELSE magnitude]

----------------------------------------------------------------------------
(* Source Excerpt Slicer (one copy in each tagger).                        *)

_slice_src_keeps_zero(src, start, length) ==
    IF start < 0 \/ length <= 0 THEN <<>>
    ELSE IF start >= Len(src) THEN <<>>
    ELSE SubSeq(src, start + 1, Min(Len(src), start + length))

_slice_src(src, start, length) ==
    IF start <= 0 \/ length <= 0 THEN <<>>
    ELSE IF start >= Len(src) THEN <<>>
    ELSE SubSeq(src, start + 1, Min(Len(src), start + length))

sinks_slice_src_keeps_zero(src, start, length) ==
    IF start < 0 \/ length <= 0 THEN <<>>
    ELSE IF start >= Len(src) THEN <<>>
    ELSE SubSeq(src, start + 1, Min(Len(src), start + length))

sinks_slice_src(src, start, length) ==
    IF start <= 0 \/ length <= 0 THEN <<>>
    ELSE IF start >= Len(src) THEN <<>>
    ELSE SubSeq(src, start + 1, Min(Len(src), start + length))

----------------------------------------------------------------------------
(* Generic list helpers.                                                   *)

RECURSIVE ConcatAll(_)
ConcatAll(ss) == IF ss = <<>> THEN <<>> ELSE Head(ss) \o ConcatAll(Tail(ss))

\* Sort keys are tuples of ints and strs; a component is <<"int", n>> or
\* <<"str", s>>, and two keys of one sort have the same shape.
ItemLess(x, y) == IF x[1] = "int" THEN x[2] < y[2] ELSE StrLess(x[2], y[2])

\* a < b for tuples: decided by the first component that differs
RECURSIVE TupleLess(_, _)
TupleLess(a, b) ==
    IF a = <<>> \/ b = <<>> THEN a = <<>> /\ b # <<>>
    ELSE IF a[1] # b[1] THEN ItemLess(a[1], b[1])
    ELSE TupleLess(Tail(a), Tail(b))

\* sorted(xs, key=...), keys[i] being the key of xs[i]: a stable sort.  Each
\* element is placed before the first already placed element with a strictly
\* greater key.
Sorted(xs, keys) ==
    LET order[k \in 0..Len(xs)] ==
            IF k = 0 THEN <<>>
            ELSE LET init == order[k - 1]
                     greater == {i \in 1..Len(init) : TupleLess(keys[k], keys[init[i]])}
                     at == IF greater = {} THEN Len(init) + 1
                           ELSE CHOOSE i \in greater : \A g \in greater : i <= g
                 IN  SubSeq(init, 1, at - 1) \o <<k>> \o SubSeq(init, at, Len(init))
    IN  [i \in 1..Len(xs) |-> xs[order[Len(xs)][i]]]

----------------------------------------------------------------------------
(* analyzers/entrypoints.py                                                *)

GUARD_TOKENS ==
    << <<"o", "n", "l", "y">>,
       <<"a", "u", "t", "h">>,
       <<"r", "o", "l", "e">>,
       <<"o", "w", "n", "e", "r">>,
       <<"a", "d", "m", "i", "n">>,
       <<"g", "o", "v", "e", "r", "n">>,
       <<"p", "a", "u", "s">>,
       <<"w", "h", "i", "t", "e", "l", "i", "s", "t">>,
       <<"a", "l", "l", "o", "w", "l", "i", "s", "t">>,
       <<"r", "e", "s", "t", "r", "i", "c", "t", "e", "d">>,
       <<"o", "p", "e", "r", "a", "t", "o", "r">>,
       <<"k", "e", "e", "p", "e", "r">>,
       <<"g", "u", "a", "r", "d", "i", "a", "n">> >>

\* the table without "set"
ADMINISH_PREFIXES_without_set ==
    << <<"u", "p", "d", "a", "t", "e">>,
       <<"u", "p", "g", "r", "a", "d", "e">>,
       <<"i", "n", "i", "t", "i", "a", "l", "i", "z", "e">>,
       <<"i", "n", "i", "t">>,
       <<"c", "o", "n", "f", "i", "g", "u", "r", "e">>,
       <<"c", "o", "n", "f", "i", "g">>,
       <<"g", "r", "a", "n", "t">>,
       <<"r", "e", "v", "o", "k", "e">>,
       <<"a", "u", "t", "h", "o", "r", "i", "z", "e">>,
       <<"p", "a", "u", "s", "e">>,
       <<"u", "n", "p", "a", "u", "s", "e">>,
       <<"r", "e", "s", "c", "u", "e">>,
       <<"s", "w", "e", "e", "p">> >>

ADMINISH_PREFIXES ==
    << <<"s", "e", "t">>,
       <<"u", "p", "d", "a", "t", "e">>,
       <<"u", "p", "g", "r", "a", "d", "e">>,
       <<"i", "n", "i", "t", "i", "a", "l", "i", "z", "e">>,
       <<"i", "n", "i", "t">>,
       <<"c", "o", "n", "f", "i", "g", "u", "r", "e">>,
       <<"c", "o", "n", "f", "i", "g">>,
       <<"g", "r", "a", "n", "t">>,
       <<"r", "e", "v", "o", "k", "e">>,
       <<"a", "u", "t", "h", "o", "r", "i", "z", "e">>,
       <<"p", "a", "u", "s", "e">>,
       <<"u", "n", "p", "a", "u", "s", "e">>,
       <<"r", "e", "s", "c", "u", "e">>,
       <<"s", "w", "e", "e", "p">> >>

CALLS_OUT_MARKERS_without_delegate ==
    << <<".", "c", "a", "l", "l", "(">>,
       <<".", "c", "a", "l", "l", "{">>,
       <<".", "s", "t", "a", "t", "i", "c", "c", "a", "l", "l", "(">> >>

CALLS_OUT_MARKERS ==
    << <<".", "c", "a", "l", "l", "(">>,
       <<".", "c", "a", "l", "l", "{">>,
       <<".", "d", "e", "l", "e", "g", "a", "t", "e", "c", "a", "l", "l", "(">>,
       <<".", "s", "t", "a", "t", "i", "c", "c", "a", "l", "l", "(">> >>

S_receive == <<"r", "e", "c", "e", "i", "v", "e">>
S_fallback == <<"f", "a", "l", "l", "b", "a", "c", "k">>
S_delegatecall == <<".", "d", "e", "l", "e", "g", "a", "t", "e", "c", "a", "l", "l", "(">>
S_msg_sender == <<"m", "s", "g", ".", "s", "e", "n", "d", "e", "r">>
S_require == <<"r", "e", "q", "u", "i", "r", "e", "(">>
S_revert == <<"r", "e", "v", "e", "r", "t">>
S_if == <<"i", "f", "(">>
S_sender_eq == <<"m", "s", "g", ".", "s", "e", "n", "d", "e", "r", "=", "=">>
S_sender_ne == <<"m", "s", "g", ".", "s", "e", "n", "d", "e", "r", "!", "=">>
S_sender_lt == <<"m", "s", "g", ".", "s", "e", "n", "d", "e", "r", "<">>
S_sender_gt == <<"m", "s", "g", ".", "s", "e", "n", "d", "e", "r", ">">>

_is_entrypoint_by_visibility(fi) == fi.visibility \in {"public", "external"}

_is_entrypoint(fi) ==
    fi.visibility \in {"public", "external"} \/ fi.name \in {S_receive, S_fallback}

_is_guarded(mods) ==
    LET low == [i \in 1..Len(mods) |-> Lower(mods[i])]
    IN  \E i \in 1..Len(low) : \E t \in 1..Len(GUARD_TOKENS) :
            Contains(low[i], GUARD_TOKENS[t])

_adminish_tag(fn_name) ==
    LET n == Lower(fn_name)
    IN  \E p \in 1..Len(ADMINISH_PREFIXES) : StartsWith(n, ADMINISH_PREFIXES[p])

\* returns <<calls_out, has_delegate>>
_detect_calls_out(fn_src) ==
    IF fn_src = <<>> THEN <<FALSE, FALSE>>
    ELSE LET low == Lower(fn_src)
         IN  << \E m \in 1..Len(CALLS_OUT_MARKERS) : Contains(low, CALLS_OUT_MARKERS[m]),
                Contains(low, S_delegatecall) >>

\* without the require( / revert / if( gate
_has_inline_sender_guard_ungated(fn_src) ==
    IF fn_src = <<>> THEN FALSE
    ELSE LET s == Lower(StripWs(fn_src))
         IN  IF ~Contains(s, S_msg_sender) THEN FALSE
             ELSE \/ Contains(s, S_sender_eq)
                  \/ Contains(s, S_sender_ne)
                  \/ Contains(s, S_sender_lt)
                  \/ Contains(s, S_sender_gt)

_has_inline_sender_guard(fn_src) ==
    IF fn_src = <<>> THEN FALSE
    ELSE LET s == Lower(StripWs(fn_src))
         IN  IF ~Contains(s, S_msg_sender) THEN FALSE
             ELSE IF ~Contains(s, S_require) /\ ~Contains(s, S_revert) /\ ~Contains(s, S_if)
             THEN FALSE
             ELSE \/ Contains(s, S_sender_eq)
                  \/ Contains(s, S_sender_ne)
                  \/ Contains(s, S_sender_lt)
                  \/ Contains(s, S_sender_gt)

_bucket_ep_payable_first(name, mut) ==
    IF mut = "payable" THEN 1
    ELSE IF name \in {S_receive, S_fallback} THEN 0
    ELSE IF mut \in {"view", "pure"} THEN 3
    ELSE IF mut \in {"nonpayable", ""} THEN 2
    ELSE 4

_bucket_ep(name, mut) ==
    IF name \in {S_receive, S_fallback} THEN 0
    ELSE IF mut = "payable" THEN 1
    ELSE IF mut \in {"view", "pure"} THEN 3
    ELSE IF mut \in {"nonpayable", ""} THEN 2
    ELSE 4

\* getattr(fi, "src_file", "") or c.file
DeclFile(c, fi) == IF fi.src_file # <<>> THEN fi.src_file ELSE c.file

\* src_by_file.get(decl_file, "")
SrcGet(sbf, decl_file) == IF decl_file \in DOMAIN sbf THEN sbf[decl_file] ELSE <<>>

\* the inherited-from-another-file drop
DeclaredElsewhere_any_difference(c, fi) == DeclFile(c, fi) # c.file

DeclaredElsewhere(c, fi) ==
    LET decl_file == DeclFile(c, fi)
    IN  decl_file # <<>> /\ c.file # <<>> /\ decl_file # c.file

SliceFailed_long_only(fi, fn_src) == fi.src_start > 0 /\ fi.src_len > 1 /\ fn_src = <<>>

\* the slicing-failed drop
SliceFailed(fi, fn_src) == fi.src_start > 0 /\ fi.src_len > 0 /\ fn_src = <<>>

\* tags[tags.index("for-all")] = "guarded-inline"
PromoteInlineGuard_appends(tags, inline_guard) ==
    IF inline_guard /\ (\E i \in 1..Len(tags) : tags[i] = "for-all")
    THEN Append(tags, "guarded-inline")
    ELSE tags

PromoteInlineGuard(tags, inline_guard) ==
    IF inline_guard /\ (\E i \in 1..Len(tags) : tags[i] = "for-all")
    THEN LET idx == CHOOSE i \in 1..Len(tags) :
                        tags[i] = "for-all" /\ \A k \in 1..(i - 1) : tags[k] # "for-all"
         IN  [tags EXCEPT ![idx] = "guarded-inline"]
    ELSE tags

AdminTag_two_ifs(tags, name, guarded, inline_guard) ==
    IF _adminish_tag(name)
    THEN LET t1 == IF guarded \/ inline_guard THEN Append(tags, "admin-ish") ELSE tags
         IN  IF ~guarded THEN Append(t1, "admin-ish (no-guard)") ELSE t1
    ELSE tags

\* the inline guard not counted as a guard
AdminTag_modifier_only(tags, name, guarded, inline_guard) ==
    IF _adminish_tag(name)
    THEN IF guarded
         THEN Append(tags, "admin-ish")
         ELSE Append(tags, "admin-ish (no-guard)")
    ELSE tags

AdminTag(tags, name, guarded, inline_guard) ==
    IF _adminish_tag(name)
    THEN IF guarded \/ inline_guard
         THEN Append(tags, "admin-ish")
         ELSE Append(tags, "admin-ish (no-guard)")
    ELSE tags

\* delegatecall ahead of calls-out
CallTags_delegate_first(tags, fn_src) ==
    LET d == _detect_calls_out(fn_src)
        t1 == IF d[2] THEN Append(tags, "delegatecall") ELSE tags
    IN  IF d[1] THEN Append(t1, "calls-out") ELSE t1

CallTags(tags, fn_src) ==
    LET d == _detect_calls_out(fn_src)
        t1 == IF d[1] THEN Append(tags, "calls-out") ELSE tags
    IN  IF d[2] THEN Append(t1, "delegatecall") ELSE t1

\* "value" appended after the call tags
EntrypointTags_value_last(fi, fn_src) ==
    LET guarded == _is_guarded(fi.modifiers)
        t0 == <<IF guarded THEN "guarded" ELSE "for-all">>
        inline_guard == _has_inline_sender_guard(fn_src)
        t2 == PromoteInlineGuard(t0, inline_guard)
        t3 == AdminTag(t2, fi.name, guarded, inline_guard)
        t4 == CallTags(t3, fn_src)
    IN  IF fi.mutability = "payable" THEN Append(t4, "value") ELSE t4

\* the tag list of one entrypoint
EntrypointTags(fi, fn_src) ==
    LET guarded == _is_guarded(fi.modifiers)
        t0 == <<IF guarded THEN "guarded" ELSE "for-all">>
        t1 == IF fi.mutability = "payable" THEN Append(t0, "value") ELSE t0
        inline_guard == _has_inline_sender_guard(fn_src)
        t2 == PromoteInlineGuard(t1, inline_guard)
        t3 == AdminTag(t2, fi.name, guarded, inline_guard)
    IN  CallTags(t3, fn_src)

\* one iteration of the loop over c.functions: the records it appends to eps
EntrypointsOf(c, fi, sbf) ==
    IF ~_is_entrypoint(fi) THEN <<>>
    ELSE IF DeclaredElsewhere(c, fi) THEN <<>>
    ELSE LET fn_src == _slice_src(SrcGet(sbf, DeclFile(c, fi)), fi.src_start, fi.src_len)
         IN  IF SliceFailed(fi, fn_src) THEN <<>>
             ELSE << [ contract      |-> c.name,
                       contract_kind |-> c.kind,
                       file          |-> c.file,
                       signature     |-> fi.signature,
                       name          |-> fi.name,
                       visibility    |-> fi.visibility,
                       mutability    |-> fi.mutability,
                       modifiers     |-> fi.modifiers,
                       line          |-> fi.line,
                       tags          |-> EntrypointTags(fi, fn_src) ] >>

\* (ep.file, ep.contract, _bucket_ep(ep.name, ep.mutability), ep.line, ep.name)
EpKey(ep) ==
    << <<"str", ep.file>>, <<"str", ep.contract>>,
       <<"int", _bucket_ep(ep.name, ep.mutability)>>,
       <<"int", ep.line>>, <<"str", ep.name>> >>

collect_entrypoints(cs, sbf) ==
    LET found == ConcatAll([i \in 1..Len(cs) |->
                     ConcatAll([j \in 1..Len(cs[i].functions) |->
                         EntrypointsOf(cs[i], cs[i].functions[j], sbf)])])
    IN  Sorted(found, [k \in 1..Len(found) |-> EpKey(found[k])])

----------------------------------------------------------------------------
(* analyzers/sinks.py                                                      *)

sinks_CALLS_OUT_MARKERS ==
    << <<".", "c", "a", "l", "l", "(">>,
       <<".", "c", "a", "l", "l", "{">>,
       <<".", "d", "e", "l", "e", "g", "a", "t", "e", "c", "a", "l", "l", "(">>,
       <<".", "s", "t", "a", "t", "i", "c", "c", "a", "l", "l", "(">> >>

S_balanceof == <<"b", "a", "l", "a", "n", "c", "e", "o", "f", "(">>
S_balanceof_self ==
    <<"b", "a", "l", "a", "n", "c", "e", "o", "f", "(",
      "a", "d", "d", "r", "e", "s", "s", "(", "t", "h", "i", "s", ")", ")">>

\* returns <<calls_out, has_delegate>>
sinks_detect_calls_out(fn_src) ==
    IF fn_src = <<>> THEN <<FALSE, FALSE>>
    ELSE LET low == Lower(fn_src)
         IN  << \E m \in 1..Len(sinks_CALLS_OUT_MARKERS) :
                    Contains(low, sinks_CALLS_OUT_MARKERS[m]),
                Contains(low, S_delegatecall) >>

\* returns <<has, self_>>
_detect_balanceof(fn_src) ==
    IF fn_src = <<>> THEN <<FALSE, FALSE>>
    ELSE LET low == Lower(fn_src)
             compact == StripWs(low)
         IN  << Contains(low, S_balanceof), Contains(compact, S_balanceof_self) >>

\* balanceOf:self ahead of balanceOf
SinkTags_self_first(fn_src) ==
    LET d == sinks_detect_calls_out(fn_src)
        b == _detect_balanceof(fn_src)
        t1 == IF d[1] THEN <<"calls-out">> ELSE <<>>
        t2 == IF d[2] THEN Append(t1, "delegatecall") ELSE t1
        t3 == IF b[2] THEN Append(t2, "balanceOf:self") ELSE t2
    IN  IF b[1] THEN Append(t3, "balanceOf") ELSE t3

\* the tag list of one function
SinkTags(fn_src) ==
    LET d == sinks_detect_calls_out(fn_src)
        b == _detect_balanceof(fn_src)
        t1 == IF d[1] THEN <<"calls-out">> ELSE <<>>
        t2 == IF d[2] THEN Append(t1, "delegatecall") ELSE t1
        t3 == IF b[1] THEN Append(t2, "balanceOf") ELSE t2
    IN  IF b[2] THEN Append(t3, "balanceOf:self") ELSE t3

\* without `if not tags: continue`
SinksOf_emits_untagged(c, fi, sbf) ==
    LET decl_file == DeclFile(c, fi)
        fn_src == sinks_slice_src(SrcGet(sbf, decl_file), fi.src_start, fi.src_len)
    IN  << [ contract      |-> c.name,
             contract_kind |-> c.kind,
             file          |-> decl_file,
             signature     |-> fi.signature,
             name          |-> fi.name,
             visibility    |-> fi.visibility,
             mutability    |-> fi.mutability,
             modifiers     |-> fi.modifiers,
             line          |-> fi.line,
             tags          |-> SinkTags(fn_src) ] >>

\* one iteration of the loop over c.functions: the records it appends to out
SinksOf(c, fi, sbf) ==
    LET decl_file == DeclFile(c, fi)
        fn_src == sinks_slice_src(SrcGet(sbf, decl_file), fi.src_start, fi.src_len)
        tags == SinkTags(fn_src)
    IN  IF tags = <<>> THEN <<>>
        ELSE << [ contract      |-> c.name,
                  contract_kind |-> c.kind,
                  file          |-> decl_file,
                  signature     |-> fi.signature,
                  name          |-> fi.name,
                  visibility    |-> fi.visibility,
                  mutability    |-> fi.mutability,
                  modifiers     |-> fi.modifiers,
                  line          |-> fi.line,
                  tags          |-> tags ] >>

\* the entrypoint key, bucket included
SinkKey_bucketed(sk) ==
    << <<"str", sk.file>>, <<"str", sk.contract>>,
       <<"int", _bucket_ep(sk.name, sk.mutability)>>, <<"int", sk.line>>, <<"str", sk.name>> >>

\* (s.file, s.contract, s.line, s.name)
SinkKey(sk) ==
    << <<"str", sk.file>>, <<"str", sk.contract>>, <<"int", sk.line>>, <<"str", sk.name>> >>

collect_sinks(cs, sbf) ==
    LET out == ConcatAll([i \in 1..Len(cs) |->
                   ConcatAll([j \in 1..Len(cs[i].functions) |->
                       SinksOf(cs[i], cs[i].functions[j], sbf)])])
    IN  Sorted(out, [k \in 1..Len(out) |-> SinkKey(out[k])])

----------------------------------------------------------------------------
(* indexer.py                                                              *)
(*                                                                         *)
(* A tree node is a record with a nodeType and its child nodes in `nodes`; *)
(* a field that is absent, null or empty in the JSON is the empty value    *)
(* (<<>> or ""), which is what `x.get(k) or default` makes of all three.   *)

S_constructor == <<"c", "o", "n", "s", "t", "r", "u", "c", "t", "o", "r">>
S_anonymous == <<"<", "a", "n", "o", "n", "y", "m", "o", "u", "s", ">">>
S_unnamed == <<"<", "u", "n", "n", "a", "m", "e", "d", ">">>
S_unknown == <<"u", "n", "k", "n", "o", "w", "n">>
S_returns == <<" ", "r", "e", "t", "u", "r", "n", "s", " ", "(">>
S_zero_src == <<"0", ":", "0", ":", "0">>

_offset_to_line(src_text, offset) ==
    IF offset <= 0 THEN 1
    ELSE CountNewlines(src_text, Min(offset, Len(src_text))) + 1

\* the dict nodes of a tree, parents before children
RECURSIVE _walk(_)
_walk(node) ==
    <<node>> \o ConcatAll([i \in 1..Len(node.nodes) |-> _walk(node.nodes[i])])

\* returns <<start, length>>
_parse_src_field(src) ==
    LET parts == Split(src, ":")
    IN  IF Len(parts) = 3 /\ IntOf(parts[1]).ok /\ IntOf(parts[2]).ok
        THEN <<IntOf(parts[1]).val, IntOf(parts[2]).val>>
        ELSE <<0, 0>>

\* f"{t} {n}".strip() for one parameter
ParamPart(p) ==
    LET named == IF p.typeName # <<>> THEN p.typeName ELSE p.typeString
        t == IF named # <<>> THEN named
             ELSE IF p.descString # <<>> THEN p.descString ELSE S_unknown
    IN  Strip(t \o <<" ">> \o p.name)

\* (p.get("typeName") or {}).get("typeDescriptions", {}).get("typeString")
\* raises AttributeError when typeDescriptions is present and null; it is
\* evaluated only when typeName has no name
ParamRaises(p) == p.typeName = <<>> /\ p.typeNameDescs = "null"

_fmt_params(params) ==
    Join(<<",", " ">>, [i \in 1..Len(params) |-> ParamPart(params[i])])

_fmt_returns(params) ==
    IF params = <<>> THEN <<>>
    ELSE Join(<<",", " ">>, [i \in 1..Len(params) |-> ParamPart(params[i])])

_is_receive(fn) == fn.kind = "receive"

_is_fallback(fn) == fn.kind = "fallback"

DisplayName(fn) ==
    IF fn.kind = "constructor" THEN S_constructor
    ELSE IF fn.kind = "receive" THEN S_receive
    ELSE IF fn.kind = "fallback" THEN S_fallback
    ELSE IF fn.name # <<>> THEN fn.name ELSE S_anonymous

\* the FunctionInfo built for one FunctionDefinition node
FunctionInfoOf(fn, src_text) ==
    LET display_name == DisplayName(fn)
        modifiers == SelectSeq(fn.modifiers, LAMBDA mn : mn # <<>>)
        params == _fmt_params(fn.parameters)
        rets == _fmt_returns(fn.returnParameters)
        sig == display_name \o <<"(">> \o params \o <<")">>
                 \o (IF modifiers # <<>> THEN <<" ">> \o Join(<<" ">>, modifiers) ELSE <<>>)
                 \o (IF rets # <<>> THEN S_returns \o rets \o <<")">> ELSE <<>>)
        loc == _parse_src_field(IF fn.src # <<>> THEN fn.src ELSE S_zero_src)
    IN  [ name       |-> display_name,
          signature  |-> sig,
          visibility |-> fn.visibility,
          mutability |-> fn.stateMutability,
          modifiers  |-> modifiers,
          line       |-> _offset_to_line(src_text, loc[1]),
          src_start  |-> loc[1],
          src_len    |-> loc[2],
          src_file   |-> <<>> ]

vis_order(v) ==
    IF v = "external" THEN 0
    ELSE IF v = "public" THEN 1
    ELSE IF v = "internal" THEN 2
    ELSE IF v = "private" THEN 3
    ELSE 99

\* (fi.visibility, fi.name)
sort_key_visibility_name(fi) ==
    << <<"str", SeqOfChars(fi.visibility)>>, <<"str", fi.name>> >>

\* (v, payable, mut_rank, fi.name)
sort_key(fi) ==
    << <<"int", vis_order(fi.visibility)>>,
       <<"int", IF fi.mutability = "payable" THEN 0 ELSE 1>>,
       <<"int", IF fi.mutability = "payable" THEN 0
                ELSE IF fi.mutability = "view" THEN 1
                ELSE IF fi.mutability = "pure" THEN 2
                ELSE 3>>,
       <<"str", fi.name>> >>

\* the ContractInfo built for one ContractDefinition node of file f
ContractInfoOf(c, f) ==
    LET all == _walk(c)
        fn_nodes == SelectSeq(all, LAMBDA n : n.nodeType = "FunctionDefinition")
        funcs == [i \in 1..Len(fn_nodes) |-> FunctionInfoOf(fn_nodes[i], f.text)]
    IN  [ name         |-> IF c.name # <<>> THEN c.name ELSE S_unnamed,
          kind         |-> IF c.contractKind # "" THEN c.contractKind ELSE "contract",
          file         |-> f.path,
          functions    |-> Sorted(funcs, [i \in 1..Len(funcs) |-> sort_key(funcs[i])]),
          has_receive  |-> \E i \in 1..Len(fn_nodes) : _is_receive(fn_nodes[i]),
          has_fallback |-> \E i \in 1..Len(fn_nodes) : _is_fallback(fn_nodes[i]) ]

\* whether normalizing the function node raises
FunctionRaises(fn) ==
    \/ \E i \in 1..Len(fn.parameters) : ParamRaises(fn.parameters[i])
    \/ \E i \in 1..Len(fn.returnParameters) : ParamRaises(fn.returnParameters[i])

\* whether the iteration of the loop over files raises for file f
FileRaises(f) ==
    /\ f.ast.found
    /\ LET all == _walk(f.ast.root)
       IN  \E i \in 1..Len(all) :
              /\ all[i].nodeType = "ContractDefinition"
              /\ LET inner == _walk(all[i])
                 IN  \E k \in 1..Len(inner) :
                        /\ inner[k].nodeType = "FunctionDefinition"
                        /\ FunctionRaises(inner[k])

\* one iteration of the loop over files: the contracts it appends
ContractsOfFile(f) ==
    IF ~f.ast.found THEN <<>>
    ELSE LET all == _walk(f.ast.root)
             contract_nodes == SelectSeq(all, LAMBDA n : n.nodeType = "ContractDefinition")
         IN  [i \in 1..Len(contract_nodes) |-> ContractInfoOf(contract_nodes[i], f)]

\* (c.file, c.name)
ContractKey(c) == << <<"str", c.file>>, <<"str", c.name>> >>

\* the IndexReport
ReportOf(fs, cs, es, ss) ==
    [ files       |-> [i \in 1..Len(fs) |-> fs[i].path],
      contracts   |-> Sorted(cs, [i \in 1..Len(cs) |-> ContractKey(cs[i])]),
      entrypoints |-> es,
      sinks       |-> ss ]

\* src_by_file after the loop over files (a later file of the same path wins)
SrcByFileOf(fs) ==
    [p \in {fs[i].path : i \in 1..Len(fs)} |->
        fs[CHOOSE i \in 1..Len(fs) :
              fs[i].path = p /\ \A k \in (i + 1)..Len(fs) : fs[k].path # p].text]

\* build_index as one function of its arguments
build_index(fs, o) ==
    LET cs == ConcatAll([i \in 1..Len(fs) |-> ContractsOfFile(fs[i])])
        sbf == SrcByFileOf(fs)
    IN  ReportOf(fs, cs,
                 IF o.entrypoints THEN collect_entrypoints(cs, sbf) ELSE <<>>,
                 IF o.sinks THEN collect_sinks(cs, sbf) ELSE <<>>)

----------------------------------------------------------------------------
(* Inputs of the taggers: contract records and the file -> text map.       *)

P_a == <<"a", ".", "s", "o", "l">>
P_b == <<"b", ".", "s", "o", "l">>
N_Vault == <<"V", "a", "u", "l", "t">>
N_setOwner == <<"s", "e", "t", "O", "w", "n", "e", "r">>
N_withdraw == <<"w", "i", "t", "h", "d", "r", "a", "w">>
M_onlyOwner == <<"o", "n", "l", "y", "O", "w", "n", "e", "r">>
M_nonReentrant == <<"n", "o", "n", "R", "e", "e", "n", "t", "r", "a", "n", "t">>

\* statements a function body may hold
St_assign == <<"o", "w", "n", "e", "r", " ", "=", " ", "o", ";">>
St_require ==
    <<"r", "e", "q", "u", "i", "r", "e", "(", "m", "s", "g", ".", "s", "e", "n", "d", "e", "r",
      " ", "=", "=", " ", "o", "w", "n", "e", "r", ")", ";">>
St_call ==
    <<"m", "s", "g", ".", "s", "e", "n", "d", "e", "r", ".", "c", "a", "l", "l", "{",
      "v", "a", "l", "u", "e", ":", " ", "a", "}", "(", "b", ")", ";">>
St_delegate ==
    <<"T", ".", "D", "e", "l", "e", "g", "a", "t", "e", "C", "a", "l", "l", "(", "d", ")", ";">>
St_balance_spaced ==
    <<"t", ".", "b", "a", "l", "a", "n", "c", "e", "O", "f", " ", "(",
      "a", "d", "d", "r", "e", "s", "s", "(", "t", "h", "i", "s", ")", ")", ";">>
St_balance_self ==
    <<"t", ".", "b", "a", "l", "a", "n", "c", "e", "O", "f", "(",
      "a", "d", "d", "r", "e", "s", "s", "(", "t", "h", "i", "s", ")", ")", ";">>
St_balance_user ==
    <<"t", ".", "b", "a", "l", "a", "n", "c", "e", "O", "f", "(", "u", ")", ";">>

St_compare == <<"b", " ", "=", " ", "m", "s", "g", ".", "s", "e", "n", "d", "e", "r", " ", "=", "=", " ", "o", ";">>

Statements ==
    {St_assign, St_require, St_call, St_delegate, St_balance_spaced, St_balance_self,
     St_balance_user, St_compare}

MaxStatements == 2

\* file texts: one leading character, then up to MaxStatements statements
Bodies == UNION {[1..n -> Statements] : n \in 0..MaxStatements}
TagTexts == {<<"{">> \o ConcatAll(b) : b \in Bodies}

Visibilities == {"external", "public", "internal", "private", ""}

\* a function record as either backend builds it for a function without parameters
FunctionRecord(name, vis, mut, mods, line, start, length, src_file) ==
    [ name       |-> name,
      signature  |-> name \o <<"(", ")">>
                        \o (IF mods # <<>> THEN <<" ">> \o Join(<<" ">>, mods) ELSE <<>>),
      visibility |-> vis,
      mutability |-> mut,
      modifiers  |-> mods,
      line       |-> line,
      src_start  |-> start,
      src_len    |-> length,
      src_file   |-> src_file ]

ContractRecord(name, kind, file, fns) ==
    [ name         |-> name,
      kind         |-> kind,
      file         |-> file,
      functions    |-> fns,
      has_receive  |-> \E i \in 1..Len(fns) : fns[i].name = S_receive,
      has_fallback |-> \E i \in 1..Len(fns) : fns[i].name = S_fallback ]

\* Which functions are emitted: every visibility, special and ordinary names, a
\* declaring file that is unknown, the contract's own or another one, offsets
\* around the ends of the text, and a map with or without the file.
SurfaceInputs ==
    LET text == <<"{">> \o St_call
    IN  { [ cs  |-> << ContractRecord(N_Vault, "contract", cfile,
                          << FunctionRecord(name, vis, "nonpayable", <<>>, 1,
                                            start, length, src_file) >>) >>,
            sbf |-> sbf ] :
            <<name, vis, cfile>> \in {S_receive, S_fallback, N_setOwner, N_withdraw}
                                        \X Visibilities \X {P_a, <<>>},
            <<src_file, start, length>> \in {<<>>, P_a, P_b}
                                        \X {-1, 0, 1, Len(text)} \X {-1, 0, 1, Len(text)},
            sbf \in {<<>>, P_a :> text} }

\* Which tags an emitted function gets: guard and other modifiers, payable or
\* not, admin-like and other names, every body, the whole body or none of it.
TaggingInputs ==
    { [ cs  |-> << ContractRecord(N_Vault, "contract", P_a,
                      << FunctionRecord(name, vis, mut, mods, 1,
                                        IF whole THEN 1 ELSE 0,
                                        IF whole THEN Len(text) ELSE 0, <<>>) >>) >>,
        sbf |-> P_a :> text ] :
        <<name, vis, mut>> \in {N_setOwner, N_withdraw} \X {"public", "external", "internal"}
                                  \X {"payable", "nonpayable"},
        <<mods, whole>> \in {<<>>, <<M_onlyOwner>>, <<M_nonReentrant>>} \X BOOLEAN,
        text \in TagTexts }

TagInputs == SurfaceInputs \cup TaggingInputs

InitTag ==
    /\ pc = "tag"
    /\ \E inp \in TagInputs :
          /\ contracts = inp.cs
          /\ src_by_file = inp.sbf
    /\ arg = <<>>
    /\ ret = <<>>
    /\ files = <<>>
    /\ opts = [entrypoints |-> TRUE, sinks |-> TRUE]
    /\ fidx = 1
    /\ eps = <<>>
    /\ sks = <<>>
    /\ report = <<>>
    /\ spinner = <<>>

CollectEntrypoints ==
    /\ pc = "tag"
    /\ eps' = collect_entrypoints(contracts, src_by_file)
    /\ pc' = "entrypoints"
    /\ UNCHANGED <<arg, ret, files, opts, fidx, contracts, src_by_file, sks, report, spinner>>

CollectSinks ==
    /\ pc = "entrypoints"
    /\ sks' = collect_sinks(contracts, src_by_file)
    /\ pc' = "sinks"
    /\ UNCHANGED <<arg, ret, files, opts, fidx, contracts, src_by_file, eps, report, spinner>>

NextTag == CollectEntrypoints \/ CollectSinks

SpecTag == InitTag /\ [][NextTag]_vars

----------------------------------------------------------------------------
(* Direct calls of the slicer.                                             *)

MaxTextLen == 3
MaxOffset == 7

SliceAlphabet == {"a", "b"}

SliceTexts ==
    UNION {[1..n -> SliceAlphabet] : n \in 0..MaxTextLen}
        \cup {<<"a", "b", "c", "d", "e", "f">>}

Offsets == -1..MaxOffset

Idle ==
    /\ files = <<>>
    /\ opts = [entrypoints |-> FALSE, sinks |-> FALSE]
    /\ fidx = 1
    /\ contracts = <<>>
    /\ src_by_file = <<>>
    /\ eps = <<>>
    /\ sks = <<>>
    /\ report = <<>>
    /\ spinner = <<>>

InitSlice ==
    /\ pc = "call"
    /\ arg \in [text : SliceTexts, start : Offsets, length : Offsets]
    /\ ret = <<>>
    /\ Idle

SliceEntrypoints ==
    /\ pc = "call"
    /\ ret' = _slice_src(arg.text, arg.start, arg.length)
    /\ pc' = "returned"
    /\ UNCHANGED <<arg, files, opts, fidx, contracts, src_by_file, eps, sks, report, spinner>>

SliceSinks ==
    /\ pc = "call"
    /\ ret' = sinks_slice_src(arg.text, arg.start, arg.length)
    /\ pc' = "returned"
    /\ UNCHANGED <<arg, files, opts, fidx, contracts, src_by_file, eps, sks, report, spinner>>

NextSlice == SliceEntrypoints \/ SliceSinks

SpecSlice == InitSlice /\ [][NextSlice]_vars

----------------------------------------------------------------------------
(* C7: the slicer returns the empty string when start <= 0, length <= 0 or  *)
(* start >= len(text); otherwise it returns the characters of text at the   *)
(* 0-based positions start .. min(len(text), start+length) - 1, in order.   *)
(* slice("abcdef", 2, 3) = "cde".                                           *)
SliceContract ==
    pc = "returned" =>
        LET n == Len(arg.text)
            unavailable == arg.start <= 0 \/ arg.length <= 0 \/ arg.start >= n
            end == IF arg.start + arg.length < n THEN arg.start + arg.length ELSE n
        IN  /\ unavailable => ret = <<>>
            /\ ~unavailable =>
                  /\ Len(ret) = end - arg.start
                  /\ \A k \in 1..Len(ret) : ret[k] = arg.text[arg.start + k]
            /\ (arg.text = <<"a", "b", "c", "d", "e", "f">> /\ arg.start = 2 /\ arg.length = 3)
                  => ret = <<"c", "d", "e">>

\* A call that returns a proper, truncated excerpt.
SliceWitness ==
    /\ pc = "returned"
    /\ arg.start > 0
    /\ arg.start + arg.length > Len(arg.text)
    /\ Len(ret) = 2

----------------------------------------------------------------------------
(* Runs of build_index over a small project.                               *)

\* file text: line 2 holds two statements (offsets 3 and 32), line 3 one
\* (offset 43)
IndexText ==
    <<"c", "{", "\n">> \o St_call \o St_assign \o <<"\n">> \o St_balance_self \o <<"\n", "}">>

Src_call == <<"3", ":", "2", "9", ":", "0">>
Src_assign == <<"3", "2", ":", "1", "0", ":", "0">>
Src_line3 == <<"4", "3", ":", "2", "7", ":", "0">>
Src_two_parts == <<"1", ":", "2">>
Src_negative == <<"-", "3", ":", "5", ":", "0">>

N_Bank == <<"B", "a", "n", "k">>
N_f == <<"f">>
N_g == <<"g">>
N_h == <<"h">>
N_k == <<"k">>
N_old == <<"o", "l", "d">>
N_deposit == <<"d", "e", "p", "o", "s", "i", "t">>
T_uint256 == <<"u", "i", "n", "t", "2", "5", "6">>
T_address == <<"a", "d", "d", "r", "e", "s", "s">>

\* one entry of a "parameters" list: typeName.name,
\* typeName.typeDescriptions.typeString, typeDescriptions.typeString, name
\* typeNameDescs says what typeName.typeDescriptions is: "dict" (a dict, or
\* absent) or "null"
Param(typeName, typeString, descString, name) ==
    [typeName |-> typeName, typeNameDescs |-> "dict", typeString |-> typeString,
     descString |-> descString, name |-> name]

\* a parameter whose typeName has no name and a null typeDescriptions
NullDescsParam(name) ==
    [typeName |-> <<>>, typeNameDescs |-> "null", typeString |-> <<>>,
     descString |-> T_uint256, name |-> name]

FunctionNode(kind, name, vis, mut, mods, params, rets, src) ==
    [ nodeType         |-> "FunctionDefinition",
      kind             |-> kind,
      name             |-> name,
      visibility       |-> vis,
      stateMutability  |-> mut,
      modifiers        |-> mods,
      parameters       |-> params,
      returnParameters |-> rets,
      src              |-> src,
      nodes            |-> <<>> ]

ContractNode(name, kind, members) ==
    [nodeType |-> "ContractDefinition", name |-> name, contractKind |-> kind,
     nodes |-> members]

OtherNode(t) == [nodeType |-> t, nodes |-> <<>>]

SourceUnit(members) == [nodeType |-> "SourceUnit", nodes |-> members]

FunctionNodes ==
    { FunctionNode("receive", <<>>, "external", "payable", <<>>, <<>>, <<>>, Src_line3),
      FunctionNode("fallback", <<>>, "external", "nonpayable", <<>>, <<>>, <<>>, Src_assign),
      FunctionNode("function", N_f, "external", "nonpayable", <<>>,
                   <<Param(T_uint256, <<>>, <<>>, <<"a">>)>>, <<>>, Src_call),
      FunctionNode("function", N_f, "external", "nonpayable", <<>>,
                   <<Param(<<>>, T_address, <<>>, <<"b">>)>>, <<>>, Src_assign),
      FunctionNode("function", N_g, "public", "payable", <<M_onlyOwner, <<>>>>,
                   <<>>, <<>>, Src_line3),
      FunctionNode("function", N_h, "public", "view", <<>>,
                   <<>>, <<Param(<<>>, <<>>, T_uint256, <<>>)>>, Src_assign),
      FunctionNode("function", N_k, "internal", "pure", <<>>, <<>>, <<>>, Src_call),
      FunctionNode("constructor", <<>>, "public", "", <<>>, <<>>, <<>>, <<>>),
      FunctionNode("function", N_old, "external", "constant", <<>>,
                   <<Param(<<>>, <<>>, <<>>, <<>>)>>, <<>>, Src_call),
      FunctionNode("function", <<>>, "private", "view", <<>>, <<>>, <<>>, Src_two_parts),
      FunctionNode("function", N_h, "", "nonpayable", <<>>, <<>>, <<>>, Src_negative),
      FunctionNode("function", N_g, "external", "nonpayable", <<>>,
                   <<NullDescsParam(<<"a">>)>>, <<>>, Src_assign) }

MaxFns == 2

RECURSIVE SeqsUpTo(_, _)
SeqsUpTo(S, n) ==
    IF n = 0 THEN {<<>>}
    ELSE LET shorter == SeqsUpTo(S, n - 1)
         IN  shorter \cup {Append(q, x) : q \in {r \in shorter : Len(r) = n - 1}, x \in S}

FunctionLists == SeqsUpTo(FunctionNodes, MaxFns)

BankNode ==
    ContractNode(N_Bank, "library",
        <<FunctionNode("function", N_deposit, "external", "payable", <<>>,
                       <<>>, <<>>, Src_call)>>)

\* a.sol: a pragma, contract Vault with one state variable and the chosen
\* functions, then (optionally) library Bank
FileA(fns, with_bank) ==
    [ path |-> P_a,
      text |-> IndexText,
      ast  |-> [found |-> TRUE,
                root  |-> SourceUnit(<<OtherNode("PragmaDirective"),
                                       ContractNode(N_Vault, "",
                                           <<OtherNode("VariableDeclaration")>> \o fns)>>
                                     \o (IF with_bank THEN <<BankNode>> ELSE <<>>))] ]

\* b.sol: either without a tree (it did not compile) or holding library Bank
FileB(found) ==
    [ path |-> P_b,
      text |-> IndexText,
      ast  |-> [found |-> found, root |-> SourceUnit(<<BankNode>>)] ]

IndexInputs ==
    { [files |-> fs, opts |-> [entrypoints |-> e, sinks |-> k]] :
        fs \in UNION { { <<FileA(fns, FALSE)>>,
                         <<FileA(fns, TRUE)>>,
                         <<FileA(fns, FALSE), FileB(FALSE)>>,
                         <<FileB(TRUE), FileA(fns, FALSE)>>,
                         <<FileB(FALSE), FileA(fns, TRUE)>> } : fns \in FunctionLists },
        e \in BOOLEAN, k \in BOOLEAN }

InitIndex ==
    /\ pc = "files"
    /\ \E inp \in IndexInputs :
          /\ files = inp.files
          /\ opts = inp.opts
    /\ fidx = 1
    /\ contracts = <<>>
    /\ src_by_file = <<>>
    /\ arg = <<>>
    /\ ret = <<>>
    /\ eps = <<>>
    /\ sks = <<>>
    /\ report = <<>>
    /\ spinner = <<>>

\* src_by_file[f.as_posix()] = src_text
Remember(sbf, f) ==
    [p \in (DOMAIN sbf) \cup {f.path} |-> IF p = f.path THEN f.text ELSE sbf[p]]

\* one iteration of `for f in files` for a file that has a tree
IndexFile ==
    /\ pc = "files"
    /\ fidx <= Len(files)
    /\ files[fidx].ast.found
    /\ ~FileRaises(files[fidx])
    /\ src_by_file' = Remember(src_by_file, files[fidx])
    /\ contracts' = contracts \o ContractsOfFile(files[fidx])
    /\ fidx' = fidx + 1
    /\ UNCHANGED <<pc, arg, ret, files, opts, eps, sks, report, spinner>>

\* the exception of _fmt_params / _fmt_returns leaves build_index: nothing
\* is returned
RaiseInFile ==
    /\ pc = "files"
    /\ fidx <= Len(files)
    /\ FileRaises(files[fidx])
    /\ pc' = "raised"
    /\ UNCHANGED <<arg, ret, files, opts, fidx, contracts, src_by_file, eps, sks, report, spinner>>

\* a missing tree treated as fatal
SkipFile_fatal ==
    /\ pc = "files"
    /\ fidx <= Len(files)
    /\ ~files[fidx].ast.found
    /\ pc' = "raised"
    /\ UNCHANGED <<arg, ret, files, opts, fidx, contracts, src_by_file, eps, sks, report, spinner>>

\* `if not ast: continue`
SkipFile ==
    /\ pc = "files"
    /\ fidx <= Len(files)
    /\ ~files[fidx].ast.found
    /\ src_by_file' = Remember(src_by_file, files[fidx])
    /\ fidx' = fidx + 1
    /\ UNCHANGED <<pc, arg, ret, files, opts, contracts, eps, sks, report, spinner>>

RunEntrypoints ==
    /\ pc = "files"
    /\ fidx > Len(files)
    /\ eps' = IF opts.entrypoints THEN collect_entrypoints(contracts, src_by_file) ELSE <<>>
    /\ pc' = "entrypoints"
    /\ UNCHANGED <<arg, ret, files, opts, fidx, contracts, src_by_file, sks, report, spinner>>

RunSinks ==
    /\ pc = "entrypoints"
    /\ sks' = IF opts.sinks THEN collect_sinks(contracts, src_by_file) ELSE <<>>
    /\ pc' = "sinks"
    /\ UNCHANGED <<arg, ret, files, opts, fidx, contracts, src_by_file, eps, report, spinner>>

Return ==
    /\ pc = "sinks"
    /\ report' = ReportOf(files, contracts, eps, sks)
    /\ pc' = "done"
    /\ UNCHANGED <<arg, ret, files, opts, fidx, contracts, src_by_file, eps, sks, spinner>>

NextIndex == IndexFile \/ RaiseInFile \/ SkipFile \/ RunEntrypoints \/ RunSinks \/ Return

SpecIndex == InitIndex /\ [][NextIndex]_vars

----------------------------------------------------------------------------
(* slither_index.py                                                        *)
(*                                                                         *)
(* A Slither object is a record of the attributes the code reads; an       *)
(* attribute that is missing, None or empty is the empty value.  A         *)
(* source_mapping is a record with `present` FALSE when it is None.        *)

Cwd == <<"/", "w">>

\* str(Path(fspath(file_path)).expanduser().resolve()) for a path without
\* "~", "." or ".." segments and without symbolic links: a relative path is
\* made absolute against the working directory
Resolve(path) ==
    IF path[1] = "/" THEN path ELSE Cwd \o <<"/">> \o path

_fn_line(fn) ==
    IF fn.source_mapping.present /\ fn.source_mapping.lines # <<>>
    THEN fn.source_mapping.lines[1]
    ELSE 1

\* returns <<start, length, file_path>>
_fn_src_info(fn) ==
    LET sm == fn.source_mapping
    IN  IF ~sm.present THEN <<0, 0, <<>>>>
        ELSE <<sm.start, sm.length,
               IF sm.filename # <<>> THEN Resolve(sm.filename) ELSE <<>>>>

\* the SlitherFunctionInfo built for one function object
SlitherFunctionInfoOf(f) ==
    LET mods == SelectSeq(f.modifiers, LAMBDA mn : mn # <<>>)
        sig == IF f.full_name # <<>> THEN f.full_name ELSE f.name
        rets == Join(<<",", " ">>, f.return_type)
        signature == sig
                       \o (IF mods # <<>> THEN <<" ">> \o Join(<<" ">>, mods) ELSE <<>>)
                       \o (IF rets # <<>> THEN S_returns \o rets \o <<")">> ELSE <<>>)
        info == _fn_src_info(f)
    IN  [ name       |-> IF f.name # <<>> THEN f.name ELSE sig,
          signature  |-> signature,
          visibility |-> f.visibility,
          mutability |-> f.state_mutability,
          modifiers  |-> mods,
          line       |-> _fn_line(f),
          src_start  |-> info[1],
          src_len    |-> info[2],
          src_file   |-> info[3] ]

\* lambda x: (x.visibility, x.name); visibility is compared as a string
SlitherFunctionKey(x) ==
    << <<"str", SeqOfChars(x.visibility)>>, <<"str", x.name>> >>

\* the SlitherContractInfo built for one contract object
SlitherContractInfoOf(c) ==
    LET funcs == [i \in 1..Len(c.functions) |-> SlitherFunctionInfoOf(c.functions[i])]
    IN  [ name         |-> c.name,
          kind         |-> IF c.is_interface THEN "interface"
                           ELSE IF c.is_library THEN "library" ELSE "contract",
          file         |-> IF c.source_mapping.present /\ c.source_mapping.filename # <<>>
                           THEN Resolve(c.source_mapping.filename) ELSE <<>>,
          functions    |-> Sorted(funcs, [i \in 1..Len(funcs) |-> SlitherFunctionKey(funcs[i])]),
          has_receive  |-> \E i \in 1..Len(c.functions) : c.functions[i].is_receive,
          has_fallback |-> \E i \in 1..Len(c.functions) : c.functions[i].is_fallback ]

\* Runs of build_index_with_slither.

P_abs_a == <<"/", "w", "/", "a", ".", "s", "o", "l">>
P_abs_b == <<"/", "w", "/", "b", ".", "s", "o", "l">>
Sig_g == <<"g", "(", ")">>
Sig_k == <<"k", "(", ")">>
Sig_f == <<"f", "(", "u", "i", "n", "t", "2", "5", "6", ")">>
Sig_receive == <<"r", "e", "c", "e", "i", "v", "e", "(", ")">>

NoMapping == [present |-> FALSE, start |-> 0, length |-> 0, filename |-> <<>>, lines |-> <<>>]

Mapping(start, length, filename, lines) ==
    [present |-> TRUE, start |-> start, length |-> length, filename |-> filename,
     lines |-> lines]

SlitherFunction(name, full_name, vis, mut, mods, rets, kind, sm) ==
    [ name             |-> name,
      full_name        |-> full_name,
      visibility       |-> vis,
      state_mutability |-> mut,
      modifiers        |-> mods,
      return_type      |-> rets,
      is_receive       |-> kind = "receive",
      is_fallback      |-> kind = "fallback",
      source_mapping   |-> sm ]

SlitherFunctions ==
    { SlitherFunction(N_g, Sig_g, "public", "view", <<>>, <<T_uint256>>, "function",
                      Mapping(32, 10, P_a, <<2>>)),
      SlitherFunction(N_k, Sig_k, "internal", "pure", <<>>, <<>>, "function",
                      Mapping(3, 29, P_abs_a, <<2, 3>>)),
      SlitherFunction(S_receive, Sig_receive, "external", "payable", <<>>, <<>>, "receive",
                      NoMapping),
      SlitherFunction(N_f, Sig_f, "external", "nonpayable", <<M_onlyOwner, <<>>>>, <<>>,
                      "function", Mapping(3, 29, P_abs_b, <<>>)),
      SlitherFunction(<<>>, <<>>, "private", "", <<>>, <<>>, "fallback",
                      Mapping(0, 0, <<>>, <<1>>)) }

SlitherContract(name, is_interface, is_library, sm, fns) ==
    [ name |-> name, is_interface |-> is_interface, is_library |-> is_library,
      source_mapping |-> sm, functions |-> fns ]

SlitherBank ==
    SlitherContract(N_Bank, FALSE, TRUE, Mapping(0, 0, P_abs_a, <<>>),
        <<SlitherFunction(N_deposit, <<>>, "external", "payable", <<>>, <<>>, "function",
                          Mapping(3, 29, P_abs_a, <<2>>))>>)

SlitherInputs ==
    { before \o <<SlitherContract(N_Vault, flags[1], flags[2], sm, fns)>> \o after :
        fns \in SeqsUpTo(SlitherFunctions, MaxFns),
        flags \in {<<FALSE, FALSE>>, <<TRUE, FALSE>>, <<FALSE, TRUE>>, <<TRUE, TRUE>>},
        sm \in {NoMapping, Mapping(0, 0, P_a, <<>>), Mapping(0, 0, P_abs_b, <<>>)},
        <<before, after>> \in {<<<<>>, <<>>>>, <<<<SlitherBank>>, <<>>>>, <<<<>>, <<SlitherBank>>>>} }

\* arg holds s.contracts, contracts holds `out`
InitSlither ==
    /\ pc = "slither"
    /\ arg \in SlitherInputs
    /\ fidx = 1
    /\ contracts = <<>>
    /\ ret = <<>>
    /\ files = <<>>
    /\ opts = [entrypoints |-> FALSE, sinks |-> FALSE]
    /\ src_by_file = <<>>
    /\ eps = <<>>
    /\ sks = <<>>
    /\ report = <<>>
    /\ spinner = <<>>

\* one iteration of `for c in s.contracts`
ReconcileContract ==
    /\ pc = "slither"
    /\ fidx <= Len(arg)
    /\ contracts' = Append(contracts, SlitherContractInfoOf(arg[fidx]))
    /\ fidx' = fidx + 1
    /\ UNCHANGED <<pc, arg, ret, files, opts, src_by_file, eps, sks, report, spinner>>

\* return sorted(out, key=lambda c: (c.file, c.name))
ReturnSlither ==
    /\ pc = "slither"
    /\ fidx > Len(arg)
    /\ ret' = Sorted(contracts, [i \in 1..Len(contracts) |-> ContractKey(contracts[i])])
    /\ pc' = "slither_done"
    /\ UNCHANGED <<arg, files, opts, fidx, contracts, src_by_file, eps, sks, report, spinner>>

NextSlither == ReconcileContract \/ ReturnSlither

SpecSlither == InitSlither /\ [][NextSlither]_vars

----------------------------------------------------------------------------
(* cli.py: the index command and its Spinner.                              *)
(*                                                                         *)
(* pc is the main thread's position in index(); spinner is the list of     *)
(* Spinner objects created so far, each with the position of its thread.   *)
(* arg holds what the outside world answers: the output of the solc        *)
(* process and the contracts Slither would report.  files holds the files  *)
(* in scope (path and text), ret the SolcAstResult, eps the entrypoints    *)
(* before the output filter, report the exit code and the payload written. *)

S_error == <<"e", "r", "r", "o", "r">>
S_fatal == <<"f", "a", "t", "a", "l">>
S_compiler_error == <<"c", "o", "m", "p", "i", "l", "e", "r", " ", "e", "r", "r", "o", "r">>
S_invalid_json == <<"s", "o", "l", "c", " ", "d", "i", "d", " ", "n", "o", "t", " ", "r", "e", "t", "u", "r", "n", " ", "v", "a", "l", "i", "d", " ", "J", "S", "O", "N", ".">>
S_stdout_label == <<"\n", "s", "t", "d", "o", "u", "t", ":", "\n">>
S_stderr_label == <<"\n", "s", "t", "d", "e", "r", "r", ":", "\n">>
S_contract == <<"c", "o", "n", "t", "r", "a", "c", "t">>

\* str(e) of a diagnostic dict whose only key is "severity"
StrOfDiagnostic(e) ==
    <<"{", "'", "s", "e", "v", "e", "r", "i", "t", "y", "'", ":", " ", "'">> \o SeqOfChars(e.severity) \o <<"'", "}">>

\* fmt = e.get("formattedMessage") or e.get("message") or str(e)
\* (an absent key is the empty sequence)
DiagnosticText(e) ==
    IF e.formattedMessage # <<>> THEN e.formattedMessage
    ELSE IF e.message # <<>> THEN e.message
    ELSE StrOfDiagnostic(e)

\* parse_ast, from the point where the solc process has answered; proc is
\* [stderr, stdout, valid_json, errors, sources], stdout being the raw text
\* when it is not JSON
parse_ast(proc) ==
    LET raw_out == Strip(proc.stdout)
        raw_err == Strip(proc.stderr)
        errors == IF raw_err # <<>> THEN <<raw_err>> ELSE <<>>
        severe == SelectSeq(proc.errors, LAMBDA e : e.severity \in {"error", "fatal"})
    IN  IF ~proc.valid_json
        THEN [ ast_by_file |-> <<>>,
               errors |-> << S_invalid_json
                               \o (IF raw_out # <<>> THEN S_stdout_label \o raw_out ELSE <<>>)
                               \o (IF raw_err # <<>> THEN S_stderr_label \o raw_err ELSE <<>>) >> ]
        ELSE [ ast_by_file |-> SelectSeq(proc.sources, LAMBDA v : v.ast.found),
               errors |-> errors \o [i \in 1..Len(severe) |-> DiagnosticText(severe[i])] ]

\* [e for e in ast_res.errors if "error" in e.lower() or "fatal" in e.lower()
\*                               or "compiler error" in e.lower()]
fatal_errors(errors) ==
    SelectSeq(errors, LAMBDA e : \/ Contains(Lower(e), S_error)
                                 \/ Contains(Lower(e), S_fatal)
                                 \/ Contains(Lower(e), S_compiler_error))

\* the files in scope, each with ast_by_file.get(f)
FilesWithTrees(fs, ast_by_file) ==
    [i \in 1..Len(fs) |->
        [ path |-> fs[i].path,
          text |-> fs[i].text,
          ast  |-> IF \E k \in 1..Len(ast_by_file) : ast_by_file[k].path = fs[i].path
                   THEN ast_by_file[CHOOSE k \in 1..Len(ast_by_file) :
                                        ast_by_file[k].path = fs[i].path].ast
                   ELSE [found |-> FALSE, root |-> SourceUnit(<<>>)] ]]

_filter_contracts_for_output(cs, include_libraries, include_interfaces) ==
    LET allowed == {"contract"} \cup (IF include_libraries THEN {"library"} ELSE {})
                                \cup (IF include_interfaces THEN {"interface"} ELSE {})
    IN  SelectSeq(cs, LAMBDA c :
            \E a \in allowed :
                Lower(SeqOfChars(IF c.kind # "" THEN c.kind ELSE "contract")) = SeqOfChars(a))

\* [x for x in xs if (x.contract_kind or "").lower() == "contract"]
OfContractsOnly(xs) ==
    SelectSeq(xs, LAMBDA x : Lower(SeqOfChars(x.contract_kind)) = S_contract)

\* the payload of the solc path (cli.py:283-341); r is the IndexReport
SolcPayload(r, o) ==
    IF o.entrypoints
    THEN [ directory   |-> Cwd,
           files       |-> r.files,
           entrypoints |-> OfContractsOnly(r.entrypoints) ]
    ELSE IF o.sinks
    THEN [ directory |-> Cwd,
           files     |-> r.files,
           sinks     |-> OfContractsOnly(r.sinks) ]
    ELSE [ directory |-> Cwd,
           files     |-> r.files,
           contracts |-> _filter_contracts_for_output(r.contracts, o.include_libraries,
                                                      o.include_interfaces) ]

\* sorted(out, key=lambda c: (c.file, c.name)) over the reconciled contracts
build_index_with_slither(cs) ==
    LET out == [i \in 1..Len(cs) |-> SlitherContractInfoOf(cs[i])]
    IN  Sorted(out, [i \in 1..Len(out) |-> ContractKey(out[i])])

\* contracts whose file is one of the files in scope (cli.py:397-402)
InScope(cs, fs) ==
    SelectSeq(cs, LAMBDA c :
        c.file # <<>> /\ \E i \in 1..Len(fs) : Resolve(c.file) = Resolve(fs[i].path))

\* src_by_file[c.file] = Path(c.file).read_text(), "" when the read fails
ReadTexts(cs, fs) ==
    [p \in {cs[i].file : i \in 1..Len(cs)} |->
        IF \E i \in 1..Len(fs) : fs[i].path = p
        THEN fs[CHOOSE i \in 1..Len(fs) : fs[i].path = p].text
        ELSE <<>>]

\* without --full only public and external functions are kept (cli.py:424-435)
PublicSurface(cs) ==
    [i \in 1..Len(cs) |->
        [cs[i] EXCEPT !.functions =
            SelectSeq(cs[i].functions, LAMBDA f : f.visibility \in {"public", "external"})]]

\* contracts = [c for c in contracts if c.functions]
NonEmptyContracts(cs) == SelectSeq(cs, LAMBDA c : c.functions # <<>>)

\* the function dicts of the fallback payload (cli.py:452-462)
FunctionDict(f) ==
    [ name |-> f.name, signature |-> f.signature, visibility |-> f.visibility,
      mutability |-> f.mutability, modifiers |-> f.modifiers, line |-> f.line ]

ContractDict(c) ==
    [ name |-> c.name, kind |-> c.kind, file |-> c.file,
      functions |-> [j \in 1..Len(c.functions) |-> FunctionDict(c.functions[j])],
      has_receive |-> c.has_receive, has_fallback |-> c.has_fallback ]

\* the payload of the fallback path (cli.py:445-493)
SlitherPayload(fs, cs, es, o) ==
    LET shown == _filter_contracts_for_output([i \in 1..Len(cs) |-> ContractDict(cs[i])],
                                               o.include_libraries, o.include_interfaces)
        paths == [i \in 1..Len(fs) |-> fs[i].path]
    IN  IF o.entrypoints
        THEN [directory |-> Cwd, files |-> paths, contracts |-> shown, entrypoints |-> es]
        ELSE [directory |-> Cwd, files |-> paths, contracts |-> shown]

\* Spinner.__init__
NewSpinner(enabled) ==
    [ enabled |-> enabled,
      stop    |-> FALSE,       \* self._stop
      msg     |-> "",          \* self._msg
      lock    |-> "free",      \* who holds self._lock: "free", "main" or "thread"
      thread  |-> "none",      \* position of _run: none, check, acquire, read, write, exited
      i       |-> 0,           \* _run's i modulo the number of frames
      local   |-> "" ]         \* _run's msg

NumFrames == 4

\* the message main passes to spinner.start
InitialMessage == IF Len(spinner) = 1 THEN "Parsing with solc..." ELSE "Indexing via Slither..."

\* where index() goes on after spinner.start() and spinner.stop()
AfterStart == IF Len(spinner) = 1 THEN "parse_ast" ELSE "slither"
AfterStop == IF Len(spinner) = 1 THEN "decide" ELSE "payload"

Current == Len(spinner)

Exit(code, source, payload) == [code |-> code, source |-> source, payload |-> payload]

\* Inputs of the index command.

N_IToken == <<"I", "T", "o", "k", "e", "n">>
T_stderr_note == <<"n", "o", "t", "e", ":", " ", "x">>
T_stderr_no_errors == <<"0", " ", "e", "r", "r", "o", "r", "s">>
T_parser_error == <<"P", "a", "r", "s", "e", "r", "E", "r", "r", "o", "r", ":", " ", "x">>
T_expected == <<"E", "x", "p", "e", "c", "t", "e", "d", " ", ";">>
T_warning == <<"W", "a", "r", "n", "i", "n", "g", ":", " ", "x">>
T_killed == <<"K", "i", "l", "l", "e", "d">>

Diagnostic(severity, formattedMessage, message) ==
    [severity |-> severity, formattedMessage |-> formattedMessage, message |-> message]

\* a.sol as solc sees it: contract Vault, library Bank, interface IToken
CliTree ==
    SourceUnit(<< ContractNode(N_Vault, "contract",
                      << FunctionNode("function", N_g, "public", "payable",
                                      <<M_onlyOwner>>, <<>>, <<>>, Src_line3),
                         FunctionNode("function", N_k, "internal", "pure",
                                      <<>>, <<>>, <<>>, Src_call) >>),
                  BankNode,
                  ContractNode(N_IToken, "interface",
                      << FunctionNode("function", N_h, "external", "view",
                                      <<>>, <<>>, <<>>, Src_assign) >>) >>)

CliFiles == << [path |-> P_abs_a, text |-> IndexText] >>

SolcProcess(stderr, stdout, valid_json, errors, with_trees) ==
    [ stderr |-> stderr, stdout |-> stdout, valid_json |-> valid_json, errors |-> errors,
      sources |-> << [path |-> P_abs_a,
                      ast  |-> [found |-> with_trees, root |-> CliTree]] >> ]

\* what the solc process may answer
SolcOutcomes ==
    { SolcProcess(<<>>, <<>>, TRUE, <<>>, TRUE),
      SolcProcess(T_stderr_no_errors, <<>>, TRUE, <<>>, TRUE),
      SolcProcess(<<>>, <<>>, TRUE, <<Diagnostic("warning", T_warning, <<"x">>)>>, TRUE),
      SolcProcess(T_stderr_note, <<>>, TRUE,
                  <<Diagnostic("warning", T_warning, <<"x">>),
                    Diagnostic("error", T_parser_error, <<"x">>),
                    Diagnostic("fatal", <<>>, <<>>)>>, FALSE),
      SolcProcess(<<>>, <<>>, TRUE, <<Diagnostic("error", <<>>, T_expected)>>, FALSE),
      SolcProcess(<<>>, T_killed, FALSE, <<>>, FALSE) }

\* what Slither reports for the project: the contracts of a.sol and one of b.sol
SlitherProject ==
    << SlitherContract(N_Vault, FALSE, FALSE, Mapping(0, 0, P_abs_a, <<>>),
           << SlitherFunction(N_k, Sig_k, "internal", "pure", <<>>, <<>>, "function",
                              Mapping(3, 29, P_abs_a, <<2>>)),
              SlitherFunction(N_g, Sig_g, "public", "payable", <<M_onlyOwner>>, <<>>,
                              "function", Mapping(43, 27, P_abs_a, <<3>>)) >>),
       SlitherBank,
       SlitherContract(N_IToken, TRUE, FALSE, Mapping(0, 0, P_abs_a, <<>>),
           << SlitherFunction(N_h, <<>>, "external", "view", <<>>, <<>>, "function",
                              Mapping(32, 10, P_abs_a, <<2>>)) >>),
       SlitherContract(N_Bank, FALSE, FALSE, Mapping(0, 0, P_abs_b, <<>>),
           << SlitherFunction(N_f, Sig_f, "external", "nonpayable", <<>>, <<>>, "function",
                              Mapping(3, 29, P_abs_b, <<2>>)) >>) >>

\* every combination of flags without the spinner; with the spinner, the
\* three output flags all off or all on
CliOptions ==
    { o \in [ entrypoints : BOOLEAN, sinks : BOOLEAN, full : BOOLEAN,
              include_libraries : BOOLEAN, include_interfaces : BOOLEAN,
              no_progress : BOOLEAN ] :
        o.no_progress \/ (o.full = o.include_libraries /\ o.full = o.include_interfaces) }

InitCli ==
    /\ pc = "index"
    /\ files \in {CliFiles, <<>>}
    /\ opts \in CliOptions
    /\ arg \in [solc : SolcOutcomes, slither : {SlitherProject}]
    /\ ret = <<>>
    /\ fidx = 1
    /\ contracts = <<>>
    /\ src_by_file = <<>>
    /\ eps = <<>>
    /\ sks = <<>>
    /\ report = <<>>
    /\ spinner = <<>>

\* raise typer.BadParameter("Use either --entrypoints or --sinks ...")
RejectBothModes ==
    /\ pc = "index"
    /\ opts.entrypoints /\ opts.sinks
    /\ report' = Exit(2, "none", <<>>)
    /\ pc' = "exit"
    /\ UNCHANGED <<arg, ret, files, opts, fidx, contracts, src_by_file, eps, sks, spinner>>

\* "No .sol files in scope"; raise typer.Exit(code=0)
NoFilesInScope ==
    /\ pc = "index"
    /\ ~(opts.entrypoints /\ opts.sinks)
    /\ files = <<>>
    /\ report' = Exit(0, "none", <<>>)
    /\ pc' = "exit"
    /\ UNCHANGED <<arg, ret, files, opts, fidx, contracts, src_by_file, eps, sks, spinner>>

\* spinner = Spinner(enabled=not no_progress), ahead of the solc attempt
CreateSpinner ==
    /\ pc = "index"
    /\ ~(opts.entrypoints /\ opts.sinks)
    /\ files # <<>>
    /\ spinner' = Append(spinner, NewSpinner(~opts.no_progress))
    /\ pc' = "start"
    /\ UNCHANGED <<arg, ret, files, opts, fidx, contracts, src_by_file, eps, sks, report>>

\* Spinner.start: `if not self.enabled: return`
StartDisabled ==
    /\ pc = "start"
    /\ ~spinner[Current].enabled
    /\ pc' = AfterStart
    /\ UNCHANGED <<arg, ret, files, opts, fidx, contracts, src_by_file, eps, sks, report,
                   spinner>>

\* Spinner.update entered without taking the lock
UpdateAcquire_unlocked ==
    /\ pc = "start"
    /\ spinner[Current].enabled
    /\ pc' = "update"
    /\ UNCHANGED <<arg, ret, files, opts, fidx, contracts, src_by_file, eps, sks, report,
                   spinner>>

\* Spinner.update: `with self._lock:` entered
UpdateAcquire ==
    /\ pc = "start"
    /\ spinner[Current].enabled
    /\ spinner[Current].lock = "free"
    /\ spinner' = [spinner EXCEPT ![Current].lock = "main"]
    /\ pc' = "update"
    /\ UNCHANGED <<arg, ret, files, opts, fidx, contracts, src_by_file, eps, sks, report>>

\* Spinner.update: `self._msg = msg`, and the lock released
UpdateWrite ==
    /\ pc = "update"
    /\ spinner' = [spinner EXCEPT ![Current].msg = InitialMessage,
                                  ![Current].lock = "free"]
    /\ pc' = "thread"
    /\ UNCHANGED <<arg, ret, files, opts, fidx, contracts, src_by_file, eps, sks, report>>

\* Spinner.start: self._stop.clear(); the thread created and started
StartThread ==
    /\ pc = "thread"
    /\ spinner' = [spinner EXCEPT ![Current].stop = FALSE,
                                  ![Current].thread = "check"]
    /\ pc' = AfterStart
    /\ UNCHANGED <<arg, ret, files, opts, fidx, contracts, src_by_file, eps, sks, report>>

\* ast_res = parse_ast(files, solc_bin=solc)
ParseAst ==
    /\ pc = "parse_ast"
    /\ ret' = parse_ast(arg.solc)
    /\ pc' = "stop"
    /\ UNCHANGED <<arg, files, opts, fidx, contracts, src_by_file, eps, sks, report, spinner>>

\* Spinner.stop: `if not self.enabled: return`
StopDisabled ==
    /\ pc = "stop"
    /\ ~spinner[Current].enabled
    /\ pc' = AfterStop
    /\ UNCHANGED <<arg, ret, files, opts, fidx, contracts, src_by_file, eps, sks, report,
                   spinner>>

\* Spinner.stop: self._stop.set()
StopSet ==
    /\ pc = "stop"
    /\ spinner[Current].enabled
    /\ spinner' = [spinner EXCEPT ![Current].stop = TRUE]
    /\ pc' = "join"
    /\ UNCHANGED <<arg, ret, files, opts, fidx, contracts, src_by_file, eps, sks, report>>

\* Spinner.stop: self._thread.join(timeout=1) returns, because the thread has
\* ended or because the second has passed
StopJoin ==
    /\ pc = "join"
    /\ pc' = AfterStop
    /\ UNCHANGED <<arg, ret, files, opts, fidx, contracts, src_by_file, eps, sks, report,
                   spinner>>

\* the solc path once build_index has returned r: the projection of the mode
\* written, raise typer.Exit(code=0)
SolcPathWrites(r) ==
    /\ contracts' = r.contracts
    /\ src_by_file' = SrcByFileOf(files)
    /\ eps' = r.entrypoints
    /\ sks' = r.sinks
    /\ report' = Exit(0, "solc", SolcPayload(r, opts))

\* `if not fatal_errors:` build_index, the projection of the mode, exit 0
SolcPath ==
    /\ pc = "decide"
    /\ fatal_errors(ret.errors) = <<>>
    /\ SolcPathWrites(build_index(FilesWithTrees(files, ret.ast_by_file), opts))
    /\ pc' = "exit"
    /\ UNCHANGED <<arg, ret, files, opts, fidx, spinner>>

\* fallback with --sinks: the error text, raise typer.Exit(code=2)
FallbackRefusesSinks ==
    /\ pc = "decide"
    /\ fatal_errors(ret.errors) # <<>>
    /\ opts.sinks
    /\ report' = Exit(2, "slither", <<>>)
    /\ pc' = "exit"
    /\ UNCHANGED <<arg, ret, files, opts, fidx, contracts, src_by_file, eps, sks, spinner>>

\* fallback: spinner = Spinner(enabled=not no_progress)
FallbackCreateSpinner ==
    /\ pc = "decide"
    /\ fatal_errors(ret.errors) # <<>>
    /\ ~opts.sinks
    /\ spinner' = Append(spinner, NewSpinner(~opts.no_progress))
    /\ pc' = "start"
    /\ UNCHANGED <<arg, ret, files, opts, fidx, contracts, src_by_file, eps, sks, report>>

\* contracts = build_index_with_slither(entry), then the scope filter
RunSlither ==
    /\ pc = "slither"
    /\ contracts' = InScope(build_index_with_slither(arg.slither), files)
    /\ pc' = "collect"
    /\ UNCHANGED <<arg, ret, files, opts, fidx, src_by_file, eps, sks, report, spinner>>

\* the entrypoints of the fallback, then the --full filter and the removal of
\* contracts left without functions (cli.py:404-441)
FallbackCollect ==
    /\ pc = "collect"
    /\ src_by_file' = IF opts.entrypoints THEN ReadTexts(contracts, files) ELSE src_by_file
    /\ eps' = IF opts.entrypoints
              THEN collect_entrypoints(contracts, ReadTexts(contracts, files))
              ELSE <<>>
    /\ contracts' = NonEmptyContracts(IF opts.full THEN contracts
                                      ELSE PublicSurface(contracts))
    /\ pc' = "stop"
    /\ UNCHANGED <<arg, ret, files, opts, fidx, sks, report, spinner>>

\* the payload of the fallback written, end of index()
FallbackPayload ==
    /\ pc = "payload"
    /\ report' = Exit(0, "slither",
                      SlitherPayload(files, contracts, OfContractsOnly(eps), opts))
    /\ pc' = "exit"
    /\ UNCHANGED <<arg, ret, files, opts, fidx, contracts, src_by_file, eps, sks, spinner>>

\* Spinner._run: `while not self._stop.is_set()`
RunCheck(k) ==
    /\ spinner[k].thread = "check"
    /\ spinner' = [spinner EXCEPT ![k].thread = IF spinner[k].stop THEN "exited"
                                                ELSE "acquire"]
    /\ UNCHANGED <<pc, arg, ret, files, opts, fidx, contracts, src_by_file, eps, sks, report>>

\* Spinner._run: `with self._lock:` entered
RunAcquire(k) ==
    /\ spinner[k].thread = "acquire"
    /\ spinner[k].lock = "free"
    /\ spinner' = [spinner EXCEPT ![k].lock = "thread", ![k].thread = "read"]
    /\ UNCHANGED <<pc, arg, ret, files, opts, fidx, contracts, src_by_file, eps, sks, report>>

\* Spinner._run: `msg = self._msg`, and the lock released
RunRead(k) ==
    /\ spinner[k].thread = "read"
    /\ spinner' = [spinner EXCEPT ![k].local = spinner[k].msg,
                                  ![k].lock = "free",
                                  ![k].thread = "write"]
    /\ UNCHANGED <<pc, arg, ret, files, opts, fidx, contracts, src_by_file, eps, sks, report>>

\* Spinner._run: the frame written to stderr, the sleep, i += 1
RunWrite(k) ==
    /\ spinner[k].thread = "write"
    /\ spinner' = [spinner EXCEPT ![k].i = (spinner[k].i + 1) % NumFrames,
                                  ![k].thread = "check"]
    /\ UNCHANGED <<pc, arg, ret, files, opts, fidx, contracts, src_by_file, eps, sks, report>>

\* one step of the thread of the k-th Spinner
SpinnerThread(k) == RunCheck(k) \/ RunAcquire(k) \/ RunRead(k) \/ RunWrite(k)

SpinnerThreads == \E k \in 1..Len(spinner) : SpinnerThread(k)

NextCli ==
    \/ RejectBothModes \/ NoFilesInScope \/ CreateSpinner
    \/ StartDisabled \/ UpdateAcquire \/ UpdateWrite \/ StartThread
    \/ ParseAst
    \/ StopDisabled \/ StopSet \/ StopJoin
    \/ SolcPath \/ FallbackRefusesSinks \/ FallbackCreateSpinner
    \/ RunSlither \/ FallbackCollect \/ FallbackPayload
    \/ SpinnerThreads

SpecCli == InitCli /\ [][NextCli]_vars

\* the operating system schedules every thread that can run
SpecCliFair == SpecCli /\ \A k \in 1..2 : WF_vars(k <= Len(spinner) /\ SpinnerThread(k))

----------------------------------------------------------------------------
(* Properties of the taggers (checked under SpecTag).                      *)

HasTag(tags, t) == \E i \in 1..Len(tags) : tags[i] = t

CountTag(tags, t) == Cardinality({i \in 1..Len(tags) : tags[i] = t})

EntrypointsReturned == pc \in {"entrypoints", "sinks"}

SinksReturned == pc = "sinks"

\* the record describes this function of this contract
Describes(ep, c, fi) ==
    /\ ep.contract = c.name
    /\ ep.contract_kind = c.kind
    /\ ep.file = c.file
    /\ ep.signature = fi.signature
    /\ ep.name = fi.name
    /\ ep.visibility = fi.visibility
    /\ ep.mutability = fi.mutability
    /\ ep.modifiers = fi.modifiers
    /\ ep.line = fi.line

Appears(c, fi) == \E k \in 1..Len(eps) : Describes(eps[k], c, fi)

Eligible(fi) ==
    \/ fi.visibility = "public"
    \/ fi.visibility = "external"
    \/ fi.name = S_receive
    \/ fi.name = S_fallback

\* the function is declared in a known file other than its contract's
InheritedFromOtherFile(c, fi) ==
    /\ fi.src_file # <<>>
    /\ c.file # <<>>
    /\ fi.src_file # c.file

\* the function has a location, and the text recorded for its file does not reach it
LocationOutsideText(c, fi) ==
    LET f == IF fi.src_file # <<>> THEN fi.src_file ELSE c.file
    IN  /\ fi.src_start > 0
        /\ fi.src_len > 0
        /\ \/ f \notin DOMAIN src_by_file
           \/ fi.src_start >= Len(src_by_file[f])

\* C1 as stated: a function appears in the entrypoint list if and only if it is
\* public or external, or is named receive or fallback, whatever its offsets,
\* declaring file and the file -> text map.
EntrypointIffEligible ==
    EntrypointsReturned =>
        \A i \in 1..Len(contracts) : \A j \in 1..Len(contracts[i].functions) :
            LET c == contracts[i]
                fi == c.functions[j]
            IN  Appears(c, fi) <=> Eligible(fi)

\* C1 as amended: a function appears in the entrypoint list if and only if it is
\* eligible (public or external, or named receive or fallback) and neither
\* suppression applies: it is not declared in a known file other than its
\* contract's, and it is not a function with start > 0 and length > 0 whose file
\* has no recorded text reaching start.  Each such function appears once.
EntrypointIffEligibleAndKept ==
    EntrypointsReturned =>
        \A i \in 1..Len(contracts) : \A j \in 1..Len(contracts[i].functions) :
            LET c == contracts[i]
                fi == c.functions[j]
                emitted == {k \in 1..Len(eps) : Describes(eps[k], c, fi)}
                expected ==
                    {<<i2, j2>> \in UNION {{<<a, b>> : b \in 1..Len(contracts[a].functions)} :
                                              a \in 1..Len(contracts)} :
                        LET c2 == contracts[i2]
                            f2 == c2.functions[j2]
                        IN  /\ c2.name = c.name /\ c2.kind = c.kind /\ c2.file = c.file
                            /\ f2.signature = fi.signature /\ f2.name = fi.name
                            /\ f2.visibility = fi.visibility
                            /\ f2.mutability = fi.mutability
                            /\ f2.modifiers = fi.modifiers /\ f2.line = fi.line
                            /\ Eligible(f2)
                            /\ ~InheritedFromOtherFile(c2, f2)
                            /\ ~LocationOutsideText(c2, f2)}
            IN  Cardinality(emitted) = Cardinality(expected)

\* An eligible function was dropped because its location lies outside the text.
EligibleButDropped ==
    /\ EntrypointsReturned
    /\ eps = <<>>
    /\ \E i \in 1..Len(contracts) : \E j \in 1..Len(contracts[i].functions) :
          /\ Eligible(contracts[i].functions[j])
          /\ ~InheritedFromOtherFile(contracts[i], contracts[i].functions[j])
          /\ LocationOutsideText(contracts[i], contracts[i].functions[j])

\* C2: a function whose visibility is internal or private never appears in the
\* entrypoint list, for any name, any modifiers and any source text.
InternalNeverEntrypoint ==
    EntrypointsReturned =>
        \A i \in 1..Len(contracts) : \A j \in 1..Len(contracts[i].functions) :
            contracts[i].functions[j].visibility \in {"internal", "private"}
                => ~Appears(contracts[i], contracts[i].functions[j])

\* C3: in every entrypoint tag list, guarded and guarded-inline never occur
\* together, and for-all never occurs together with either of them.
AccessTagsExclusive ==
    \A k \in 1..Len(eps) :
        LET t == eps[k].tags
        IN  /\ ~(HasTag(t, "guarded") /\ HasTag(t, "guarded-inline"))
            /\ ~(HasTag(t, "for-all") /\ HasTag(t, "guarded"))
            /\ ~(HasTag(t, "for-all") /\ HasTag(t, "guarded-inline"))

\* An entrypoint was promoted to guarded-inline.
PromotedEntrypoint ==
    /\ EntrypointsReturned
    /\ \E k \in 1..Len(eps) : HasTag(eps[k].tags, "guarded-inline")

\* C4: in every entrypoint tag list, admin-ish and admin-ish (no-guard) are
\* mutually exclusive and each occurs at most once.
AdminTagsExclusive ==
    \A k \in 1..Len(eps) :
        LET t == eps[k].tags
        IN  /\ CountTag(t, "admin-ish") <= 1
            /\ CountTag(t, "admin-ish (no-guard)") <= 1
            /\ ~(HasTag(t, "admin-ish") /\ HasTag(t, "admin-ish (no-guard)"))

\* An admin-like entrypoint guarded only inline got its admin tag.
InlineGuardedAdmin ==
    /\ EntrypointsReturned
    /\ \E k \in 1..Len(eps) :
          /\ HasTag(eps[k].tags, "guarded-inline")
          /\ HasTag(eps[k].tags, "admin-ish")

\* C5: in every tag list of either tagger, delegatecall implies calls-out.
DelegatecallImpliesCallsOut ==
    /\ \A k \in 1..Len(eps) :
          HasTag(eps[k].tags, "delegatecall") => HasTag(eps[k].tags, "calls-out")
    /\ \A k \in 1..Len(sks) :
          HasTag(sks[k].tags, "delegatecall") => HasTag(sks[k].tags, "calls-out")

\* Both taggers reported a delegatecall.
DelegatecallTagged ==
    /\ SinksReturned
    /\ \E k \in 1..Len(eps) : HasTag(eps[k].tags, "delegatecall")
    /\ \E k \in 1..Len(sks) : HasTag(sks[k].tags, "delegatecall")

\* C6: in every sink tag list, balanceOf:self is only present together with
\* balanceOf.
SelfBalanceImpliesBalance ==
    \A k \in 1..Len(sks) :
        HasTag(sks[k].tags, "balanceOf:self") => HasTag(sks[k].tags, "balanceOf")

----------------------------------------------------------------------------
(* Properties of build_index (checked under SpecIndex).                    *)

\* the file list with the members of contract node j of file i rearranged
\* by the permutation p
Shuffled(fs, i, j, p) ==
    LET members == fs[i].ast.root.nodes[j].nodes
    IN  [fs EXCEPT ![i].ast.root.nodes[j].nodes =
                       [k \in 1..Len(members) |-> members[p[k]]]]

(* C8: shuffling the order in which a contract's function definitions are   *)
(* supplied to normalization does not change the result: for every          *)
(* permutation of the members of every contract node, the report (every     *)
(* contract record's ordered functions list, the entrypoint list and the    *)
(* sink list) is the one the run returned.                                  *)
ShuffleInvariant ==
    pc = "done" =>
        \A i \in 1..Len(files) :
            files[i].ast.found =>
                \A j \in 1..Len(files[i].ast.root.nodes) :
                    LET c == files[i].ast.root.nodes[j]
                    IN  c.nodeType = "ContractDefinition" =>
                            \A p \in Permutations(1..Len(c.nodes)) :
                                build_index(Shuffled(files, i, j, p), opts) = report

\* the presentation bucket as the ordering rule words it
OrderingBucket(ep) ==
    IF ep.name = S_receive \/ ep.name = S_fallback THEN 0
    ELSE IF ep.mutability = "payable" THEN 1
    ELSE IF ep.mutability = "nonpayable" \/ ep.mutability = "" THEN 2
    ELSE IF ep.mutability = "view" \/ ep.mutability = "pure" THEN 3
    ELSE 4

\* a comes no later than b under (file, contract, bucket, line, name)
OrderingLeq(a, b) ==
    IF a.file # b.file THEN StrLess(a.file, b.file)
    ELSE IF a.contract # b.contract THEN StrLess(a.contract, b.contract)
    ELSE IF OrderingBucket(a) # OrderingBucket(b) THEN OrderingBucket(a) < OrderingBucket(b)
    ELSE IF a.line # b.line THEN a.line < b.line
    ELSE a.name = b.name \/ StrLess(a.name, b.name)

(* C10: the list returned by collect_entrypoints is in ascending order of   *)
(* the key (file, contract, bucket, line, name), where bucket is 0 for a    *)
(* function named receive or fallback (whatever its mutability), 1 for      *)
(* payable, 2 for nonpayable or unknown mutability, 3 for view or pure and  *)
(* 4 for anything else.                                                     *)
EntrypointsAscending ==
    pc \in {"entrypoints", "sinks", "done"} =>
        \A i \in 1..Len(eps) : \A j \in (i + 1)..Len(eps) : OrderingLeq(eps[i], eps[j])

\* a payable receive on line 3 listed ahead of a payable function of the
\* same contract and line whose name sorts first, in a list that also puts
\* a.sol ahead of b.sol although b.sol was indexed first
EntrypointsAscendingWitness ==
    /\ pc = "done"
    /\ files[1].path = P_b
    /\ \E i \in 1..Len(eps) : \E j \in (i + 1)..Len(eps) :
          /\ eps[i].name = S_receive
          /\ eps[i].mutability = "payable"
          /\ eps[j].mutability = "payable"
          /\ eps[j].contract = eps[i].contract
          /\ eps[j].line = eps[i].line
          /\ StrLess(eps[j].name, eps[i].name)
    /\ \E i \in 1..Len(eps) : \E j \in (i + 1)..Len(eps) :
          eps[i].file = P_a /\ eps[j].file = P_b

\* the ranks of the function comparator as the ordering rule words them
ComparatorVisibilityRank(fi) ==
    CASE fi.visibility = "external" -> 0
      [] fi.visibility = "public" -> 1
      [] fi.visibility = "internal" -> 2
      [] fi.visibility = "private" -> 3
      [] OTHER -> 99

ComparatorPayableFirst(fi) == IF fi.mutability = "payable" THEN 0 ELSE 1

ComparatorMutabilityRank(fi) ==
    CASE fi.mutability = "payable" -> 0
      [] fi.mutability = "view" -> 1
      [] fi.mutability = "pure" -> 2
      [] OTHER -> 3

\* a comes no later than b under (visibility rank, payable-first, mutability
\* rank, name)
ComparatorLeq(a, b) ==
    IF ComparatorVisibilityRank(a) # ComparatorVisibilityRank(b)
    THEN ComparatorVisibilityRank(a) < ComparatorVisibilityRank(b)
    ELSE IF ComparatorPayableFirst(a) # ComparatorPayableFirst(b)
    THEN ComparatorPayableFirst(a) < ComparatorPayableFirst(b)
    ELSE IF ComparatorMutabilityRank(a) # ComparatorMutabilityRank(b)
    THEN ComparatorMutabilityRank(a) < ComparatorMutabilityRank(b)
    ELSE a.name = b.name \/ StrLess(a.name, b.name)

FunctionsInComparatorOrder(c) ==
    \A i \in 1..Len(c.functions) : \A j \in (i + 1)..Len(c.functions) :
        ComparatorLeq(c.functions[i], c.functions[j])

(* C11: within every contract record produced by build_index, the functions *)
(* list is in ascending order of (visibility rank, payable-first flag,      *)
(* mutability rank, name), with external=0 < public=1 < internal=2 <        *)
(* private=3 < anything else=99, payable-first 0 for payable else 1, and    *)
(* payable=0 < view=1 < pure=2 < other=3.                                   *)
FunctionsAscending ==
    /\ \A n \in 1..Len(contracts) : FunctionsInComparatorOrder(contracts[n])
    /\ pc = "done" =>
          \A n \in 1..Len(report.contracts) : FunctionsInComparatorOrder(report.contracts[n])

\* a returned contract record that lists a public view function ahead of an
\* internal pure one
FunctionsAscendingWitness ==
    /\ pc = "done"
    /\ \E n \in 1..Len(report.contracts) :
          LET fns == report.contracts[n].functions
          IN  /\ Len(fns) = 2
              /\ fns[1].visibility = "public"
              /\ fns[2].visibility = "internal"
              /\ fns[1].mutability = "view"
              /\ fns[2].mutability = "pure"

(* C12: contract records emitted by build_index_with_slither have the       *)
(* canonical shape of the normalizer's, including the order of their        *)
(* functions list: it follows the same comparator (visibility rank          *)
(* external < public < internal < private, then payable-first, then         *)
(* mutability rank, then name) as the primary path.                         *)
SlitherFunctionsAscending ==
    /\ \A n \in 1..Len(contracts) :
          /\ DOMAIN contracts[n] =
                {"name", "kind", "file", "functions", "has_receive", "has_fallback"}
          /\ contracts[n].kind \in {"contract", "interface", "library"}
          /\ FunctionsInComparatorOrder(contracts[n])
    /\ pc = "slither_done" =>
          \A n \in 1..Len(ret) : FunctionsInComparatorOrder(ret[n])

----------------------------------------------------------------------------
(* Properties of the sink tagger.                                          *)

\* the file a function's text is looked up under
LookupFile(c, fi) == IF fi.src_file # <<>> THEN fi.src_file ELSE c.file

\* the function's excerpt: the characters of its file's recorded text at the
\* 0-based positions start .. start+length-1 that exist, none when the
\* location is unknown
Excerpt(c, fi) ==
    LET f == LookupFile(c, fi)
    IN  IF f \notin DOMAIN src_by_file \/ fi.src_start <= 0 \/ fi.src_len <= 0 THEN <<>>
        ELSE LET text == src_by_file[f]
                 last == IF fi.src_start + fi.src_len < Len(text)
                         THEN fi.src_start + fi.src_len ELSE Len(text)
             IN  [k \in 1..(IF last > fi.src_start THEN last - fi.src_start ELSE 0) |->
                     text[fi.src_start + k]]

\* the sink record describes this function of this contract
SinkDescribes(sk, c, fi) ==
    /\ sk.contract = c.name
    /\ sk.contract_kind = c.kind
    /\ sk.file = LookupFile(c, fi)
    /\ sk.signature = fi.signature
    /\ sk.name = fi.name
    /\ sk.visibility = fi.visibility
    /\ sk.mutability = fi.mutability
    /\ sk.modifiers = fi.modifiers
    /\ sk.line = fi.line

\* case-insensitive search for a low-level call marker
HasCallMarker(x) ==
    \E m \in { <<".", "c", "a", "l", "l", "(">>,
               <<".", "c", "a", "l", "l", "{">>,
               <<".", "d", "e", "l", "e", "g", "a", "t", "e", "c", "a", "l", "l", "(">>,
               <<".", "s", "t", "a", "t", "i", "c", "c", "a", "l", "l", "(">> } :
        Contains(Lower(x), m)

L_balanceOf == <<"b", "a", "l", "a", "n", "c", "e", "O", "f", "(">>
L_balanceOf_self == <<"b", "a", "l", "a", "n", "c", "e", "O", "f", "(", "a", "d", "d", "r", "e", "s", "s", "(", "t", "h", "i", "s", ")", ")">>

\* a balance read, in any letter case
HasBalanceRead(x) == Contains(Lower(x), Lower(L_balanceOf))

\* the self-referential form, in any letter case and spacing
HasSelfBalanceRead(x) == Contains(Lower(StripWs(x)), Lower(L_balanceOf_self))

SinkTagNames == {"calls-out", "delegatecall", "balanceOf", "balanceOf:self"}

(* C13: collect_sinks emits a record only for functions that earn at least  *)
(* one sink tag: every emitted sink record has a non-empty tag list drawn   *)
(* from {calls-out, delegatecall, balanceOf, balanceOf:self}, and a         *)
(* function whose excerpt triggers none of these is absent from the output. *)
SinksOnlyWhenTagged ==
    SinksReturned =>
        /\ \A k \in 1..Len(sks) :
              /\ sks[k].tags # <<>>
              /\ \A t \in 1..Len(sks[k].tags) : sks[k].tags[t] \in SinkTagNames
        /\ \A i \in 1..Len(contracts) : \A j \in 1..Len(contracts[i].functions) :
              LET c == contracts[i]
                  fi == c.functions[j]
                  x == Excerpt(c, fi)
              IN  (~HasCallMarker(x) /\ ~HasBalanceRead(x) /\ ~HasSelfBalanceRead(x))
                     => \A k \in 1..Len(sks) : ~SinkDescribes(sks[k], c, fi)

\* a function with a non-empty excerpt that triggers nothing was left out
UntaggedFunctionOmitted ==
    /\ SinksReturned
    /\ sks = <<>>
    /\ \E i \in 1..Len(contracts) : \E j \in 1..Len(contracts[i].functions) :
          LET x == Excerpt(contracts[i], contracts[i].functions[j])
          IN  x # <<>> /\ ~HasCallMarker(x) /\ ~HasBalanceRead(x) /\ ~HasSelfBalanceRead(x)

\* a comes no later than b under (file, contract, line, name)
SinkOrderingLeq(a, b) ==
    IF a.file # b.file THEN StrLess(a.file, b.file)
    ELSE IF a.contract # b.contract THEN StrLess(a.contract, b.contract)
    ELSE IF a.line # b.line THEN a.line < b.line
    ELSE a.name = b.name \/ StrLess(a.name, b.name)

(* C14: the list returned by collect_sinks is in ascending order of the key *)
(* (file, contract, line, name), with no mutability bucket.                 *)
SinksAscending ==
    pc \in {"sinks", "done"} =>
        \A i \in 1..Len(sks) : \A j \in (i + 1)..Len(sks) : SinkOrderingLeq(sks[i], sks[j])

\* a nonpayable sink on a lower line listed ahead of a payable one of the
\* same contract, in a list that spans two files
SinksAscendingWitness ==
    /\ pc = "done"
    /\ \E i \in 1..Len(sks) : \E j \in (i + 1)..Len(sks) :
          /\ sks[i].contract = sks[j].contract
          /\ sks[i].file = sks[j].file
          /\ sks[i].line < sks[j].line
          /\ sks[i].mutability = "nonpayable"
          /\ sks[j].mutability = "payable"
    /\ \E i \in 1..Len(sks) : \E j \in (i + 1)..Len(sks) : sks[i].file # sks[j].file

(* C17: for a function whose excerpt contains no low-level call marker: if  *)
(* the excerpt contains balanceOf(address(this)) its sink tags are exactly  *)
(* [balanceOf, balanceOf:self]; if it contains a balanceOf( call only in a  *)
(* non-self form its sink tags are exactly [balanceOf].                     *)
BalanceReadScenarios ==
    SinksReturned =>
        \A i \in 1..Len(contracts) : \A j \in 1..Len(contracts[i].functions) :
            LET c == contracts[i]
                fi == c.functions[j]
                x == Excerpt(c, fi)
                found == {k \in 1..Len(sks) : SinkDescribes(sks[k], c, fi)}
            IN  ~HasCallMarker(x) =>
                  /\ Contains(x, L_balanceOf_self) =>
                        /\ found # {}
                        /\ \A k \in found : sks[k].tags = <<"balanceOf", "balanceOf:self">>
                  /\ (Contains(x, L_balanceOf) /\ ~HasSelfBalanceRead(x)) =>
                        /\ found # {}
                        /\ \A k \in found : sks[k].tags = <<"balanceOf">>

\* a self balance read next to a balance read of a user, reported
SelfBalanceReadReported ==
    /\ SinksReturned
    /\ \E i \in 1..Len(contracts) : \E j \in 1..Len(contracts[i].functions) :
          LET x == Excerpt(contracts[i], contracts[i].functions[j])
          IN  /\ ~HasCallMarker(x)
              /\ Contains(x, L_balanceOf_self)
              /\ Contains(x, St_balance_user)
    /\ Len(sks) = 1
    /\ sks[1].tags = <<"balanceOf", "balanceOf:self">>

----------------------------------------------------------------------------
(* Scenarios and suppression rules of the entrypoint tagger.               *)

\* the privileged-operation prefixes
AdminPrefixWords ==
    { <<"s", "e", "t">>,
      <<"u", "p", "d", "a", "t", "e">>,
      <<"u", "p", "g", "r", "a", "d", "e">>,
      <<"i", "n", "i", "t", "i", "a", "l", "i", "z", "e">>,
      <<"i", "n", "i", "t">>,
      <<"c", "o", "n", "f", "i", "g", "u", "r", "e">>,
      <<"c", "o", "n", "f", "i", "g">>,
      <<"g", "r", "a", "n", "t">>,
      <<"r", "e", "v", "o", "k", "e">>,
      <<"a", "u", "t", "h", "o", "r", "i", "z", "e">>,
      <<"p", "a", "u", "s", "e">>,
      <<"u", "n", "p", "a", "u", "s", "e">>,
      <<"r", "e", "s", "c", "u", "e">>,
      <<"s", "w", "e", "e", "p">> }

\* the guard-token vocabulary
GuardWords ==
    { <<"o", "n", "l", "y">>,
      <<"a", "u", "t", "h">>,
      <<"r", "o", "l", "e">>,
      <<"o", "w", "n", "e", "r">>,
      <<"a", "d", "m", "i", "n">>,
      <<"g", "o", "v", "e", "r", "n">>,
      <<"p", "a", "u", "s">>,
      <<"w", "h", "i", "t", "e", "l", "i", "s", "t">>,
      <<"a", "l", "l", "o", "w", "l", "i", "s", "t">>,
      <<"r", "e", "s", "t", "r", "i", "c", "t", "e", "d">>,
      <<"o", "p", "e", "r", "a", "t", "o", "r">>,
      <<"k", "e", "e", "p", "e", "r">>,
      <<"g", "u", "a", "r", "d", "i", "a", "n">> }

HasAdminPrefix(name) == \E w \in AdminPrefixWords : StartsWith(Lower(name), w)

HasGuardModifier(mods) ==
    \E i \in 1..Len(mods) : \E w \in GuardWords : Contains(Lower(mods[i]), w)

\* a comparison of the caller identity, in any letter case and spacing
HasSenderComparison(x) ==
    \E w \in { <<"m", "s", "g", ".", "s", "e", "n", "d", "e", "r", "=", "=">>,
               <<"m", "s", "g", ".", "s", "e", "n", "d", "e", "r", "!", "=">>,
               <<"m", "s", "g", ".", "s", "e", "n", "d", "e", "r", "<">>,
               <<"m", "s", "g", ".", "s", "e", "n", "d", "e", "r", ">">>,
               <<"=", "=", "m", "s", "g", ".", "s", "e", "n", "d", "e", "r">>,
               <<"!", "=", "m", "s", "g", ".", "s", "e", "n", "d", "e", "r">> } :
        Contains(Lower(StripWs(x)), w)

\* the function is emitted, and every record emitted for it has these tags
TaggedExactly(c, fi, tags) ==
    /\ Appears(c, fi)
    /\ \A k \in 1..Len(eps) : Describes(eps[k], c, fi) => eps[k].tags = tags

(* C15: a public, non-payable function with no modifiers, whose name starts *)
(* with an admin prefix (e.g. setOwner) and whose excerpt contains neither  *)
(* a caller-identity comparison nor any low-level call marker, gets exactly *)
(* the tag list [for-all, admin-ish (no-guard)], in that order.             *)
UnguardedAdminScenario ==
    EntrypointsReturned =>
        \A i \in 1..Len(contracts) : \A j \in 1..Len(contracts[i].functions) :
            LET c == contracts[i]
                fi == c.functions[j]
                x == Excerpt(c, fi)
            IN  ( /\ fi.visibility = "public"
                  /\ fi.mutability # "payable"
                  /\ fi.modifiers = <<>>
                  /\ HasAdminPrefix(fi.name)
                  /\ ~HasSenderComparison(x)
                  /\ ~HasCallMarker(x)
                  /\ ~InheritedFromOtherFile(c, fi)
                  /\ ~LocationOutsideText(c, fi) )
                => TaggedExactly(c, fi, <<"for-all", "admin-ish (no-guard)">>)

\* setOwner, public and nonpayable, whose excerpt holds `owner = o;`
UnguardedAdminTagged ==
    /\ EntrypointsReturned
    /\ Len(eps) = 1
    /\ eps[1].name = N_setOwner
    /\ eps[1].visibility = "public"
    /\ eps[1].mutability = "nonpayable"
    /\ eps[1].modifiers = <<>>
    /\ Excerpt(contracts[1], contracts[1].functions[1]) = St_assign
    /\ eps[1].tags = <<"for-all", "admin-ish (no-guard)">>

(* C16: an external payable function with a modifier containing a guard     *)
(* token (e.g. onlyOwner), a name without admin prefix (e.g. withdraw) and  *)
(* an excerpt containing a .call{ marker but no .delegatecall( marker gets  *)
(* exactly the tag list [guarded, value, calls-out], in that order.         *)
GuardedValueCallScenario ==
    EntrypointsReturned =>
        \A i \in 1..Len(contracts) : \A j \in 1..Len(contracts[i].functions) :
            LET c == contracts[i]
                fi == c.functions[j]
                x == Excerpt(c, fi)
            IN  ( /\ fi.visibility = "external"
                  /\ fi.mutability = "payable"
                  /\ HasGuardModifier(fi.modifiers)
                  /\ ~HasAdminPrefix(fi.name)
                  /\ Contains(Lower(x), <<".", "c", "a", "l", "l", "{">>)
                  /\ ~Contains(Lower(x), <<".", "d", "e", "l", "e", "g", "a", "t", "e", "c", "a", "l", "l", "(">>)
                  /\ ~InheritedFromOtherFile(c, fi)
                  /\ ~LocationOutsideText(c, fi) )
                => TaggedExactly(c, fi, <<"guarded", "value", "calls-out">>)

\* withdraw, external and payable under onlyOwner, whose excerpt holds the
\* value-carrying call
GuardedValueCallTagged ==
    /\ EntrypointsReturned
    /\ Len(eps) = 1
    /\ eps[1].name = N_withdraw
    /\ eps[1].visibility = "external"
    /\ eps[1].mutability = "payable"
    /\ eps[1].modifiers = <<M_onlyOwner>>
    /\ Excerpt(contracts[1], contracts[1].functions[1]) = St_call
    /\ eps[1].tags = <<"guarded", "value", "calls-out">>

UnreliableSliceSuppression ==
    EntrypointsReturned =>
        \A i \in 1..Len(contracts) : \A j \in 1..Len(contracts[i].functions) :
            LET c == contracts[i]
                fi == c.functions[j]
                f == LookupFile(c, fi)
            IN  ( /\ Eligible(fi)
                  /\ fi.src_start > 0
                  /\ fi.src_len > 0
                  /\ \/ f \notin DOMAIN src_by_file
                     \/ fi.src_start >= Len(src_by_file[f]) )
                => ~Appears(c, fi)

\* a public function of a.sol located exactly at the end of the recorded
\* text of a.sol, dropped
FunctionAtEndOfTextDropped ==
    /\ EntrypointsReturned
    /\ eps = <<>>
    /\ Len(contracts) = 1
    /\ LET c == contracts[1]
           fi == c.functions[1]
       IN  /\ fi.visibility = "public"
           /\ c.file = P_a
           /\ fi.src_file \in {<<>>, P_a}
           /\ P_a \in DOMAIN src_by_file
           /\ fi.src_start = Len(src_by_file[P_a])
           /\ fi.src_len = 1

----------------------------------------------------------------------------
(* Robustness of build_index.                                              *)

(* C20: build_index never aborts because an individual field of a contract, *)
(* function, parameter or modifier node is missing or malformed (absent or  *)
(* null name, unparsable location string, absent, null or unresolvable type *)
(* fields): the run does not end in an exception, and once the loop over    *)
(* files is over there is a record for every contract node and every        *)
(* function node of every file that has a tree.                             *)
NormalizationNeverAborts ==
    /\ pc # "raised"
    /\ pc \in {"entrypoints", "sinks", "done"} =>
          \A i \in 1..Len(files) :
              files[i].ast.found =>
                  \A j \in 1..Len(files[i].ast.root.nodes) :
                      LET node == files[i].ast.root.nodes[j]
                      IN  node.nodeType = "ContractDefinition" =>
                              \E n \in 1..Len(contracts) :
                                  /\ contracts[n].file = files[i].path
                                  /\ Len(contracts[n].functions) =
                                        Cardinality({k \in 1..Len(node.nodes) :
                                            node.nodes[k].nodeType = "FunctionDefinition"})

(* C21: in build_index a file whose tree is missing raises no error and     *)
(* contributes no contract records, and every other file of the run yields  *)
(* exactly the contract records it yields in a run over that file alone.    *)
MissingTreeSkipped ==
    /\ pc = "raised" => /\ fidx <= Len(files)
                        /\ files[fidx].ast.found
    /\ pc = "done" =>
          \A i \in 1..Len(files) :
              LET mine  == SelectSeq(report.contracts, LAMBDA c : c.file = files[i].path)
                  alone == build_index(<<files[i]>>, [entrypoints |-> FALSE, sinks |-> FALSE])
              IN  IF files[i].ast.found THEN mine = alone.contracts ELSE mine = <<>>

\* A run over a file without a tree and a file with one returned the records
\* of the second.
PartialResultReturned ==
    /\ pc = "done"
    /\ \E i \in 1..Len(files) : ~files[i].ast.found
    /\ \E n \in 1..Len(report.contracts) : Len(report.contracts[n].functions) >= 1

----------------------------------------------------------------------------
(* Tag lists of the entrypoint tagger.                                     *)

\* the caller identity immediately followed by a comparison operator, in the
\* excerpt with whitespace removed and lower-cased
SenderThenComparison(x) ==
    \E w \in { <<"m", "s", "g", ".", "s", "e", "n", "d", "e", "r", "=", "=">>,
               <<"m", "s", "g", ".", "s", "e", "n", "d", "e", "r", "!", "=">>,
               <<"m", "s", "g", ".", "s", "e", "n", "d", "e", "r", "<">>,
               <<"m", "s", "g", ".", "s", "e", "n", "d", "e", "r", ">">> } :
        Contains(Lower(StripWs(x)), w)

\* one of require( , revert , if( in the same normalised excerpt
HasControlKeyword(x) ==
    \E w \in { <<"r", "e", "q", "u", "i", "r", "e", "(">>,
               <<"r", "e", "v", "e", "r", "t">>,
               <<"i", "f", "(">> } :
        Contains(Lower(StripWs(x)), w)

InlineGuardStated(x) == SenderThenComparison(x) /\ HasControlKeyword(x)

(* C22: an inline guard is detected exactly when the excerpt, whitespace    *)
(* removed and lower-cased, contains msg.sender immediately followed by ==, *)
(* !=, < or >, and also contains require(, revert or if(. An emitted        *)
(* function with no guard-token modifier has guarded-inline in the place of *)
(* for-all when the guard is detected and for-all otherwise; a function     *)
(* guarded by modifier keeps guarded and never gets guarded-inline.         *)
InlineGuardDetection ==
    EntrypointsReturned =>
        \A i \in 1..Len(contracts) : \A j \in 1..Len(contracts[i].functions) :
            LET c == contracts[i]
                fi == c.functions[j]
            IN  \A k \in 1..Len(eps) :
                    Describes(eps[k], c, fi) =>
                        LET t == eps[k].tags
                        IN  /\ Len(t) >= 1
                            /\ IF HasGuardModifier(fi.modifiers)
                               THEN t[1] = "guarded" /\ ~HasTag(t, "guarded-inline")
                               ELSE IF InlineGuardStated(Excerpt(c, fi))
                               THEN t[1] = "guarded-inline" /\ ~HasTag(t, "for-all")
                               ELSE t[1] = "for-all" /\ ~HasTag(t, "guarded-inline")

\* A function with a modifier that is no guard was promoted by a require on
\* the caller, and one whose body only stores a caller comparison was not.
InlineGuardBothWays ==
    /\ EntrypointsReturned
    /\ \E i \in 1..Len(contracts) : \E j \in 1..Len(contracts[i].functions) :
          LET c == contracts[i]
              fi == c.functions[j]
          IN  \/ /\ fi.modifiers = <<M_nonReentrant>>
                 /\ InlineGuardStated(Excerpt(c, fi))
                 /\ \E k \in 1..Len(eps) :
                        Describes(eps[k], c, fi) /\ eps[k].tags[1] = "guarded-inline"
              \/ /\ SenderThenComparison(Excerpt(c, fi))
                 /\ ~HasControlKeyword(Excerpt(c, fi))
                 /\ \E k \in 1..Len(eps) :
                        Describes(eps[k], c, fi) /\ eps[k].tags[1] = "for-all"

(* C23: an emitted entrypoint whose lower-cased name starts with an admin  *)
(* prefix has admin-ish exactly when it has guarded or guarded-inline, and *)
(* admin-ish (no-guard) exactly when it has for-all; an entrypoint whose   *)
(* name has no admin prefix has neither admin tag.                         *)
AdminTagFollowsAccessTag ==
    \A k \in 1..Len(eps) :
        LET t == eps[k].tags
        IN  IF HasAdminPrefix(eps[k].name)
            THEN /\ HasTag(t, "admin-ish") <=>
                        (HasTag(t, "guarded") \/ HasTag(t, "guarded-inline"))
                 /\ HasTag(t, "admin-ish (no-guard)") <=> HasTag(t, "for-all")
            ELSE /\ ~HasTag(t, "admin-ish")
                 /\ ~HasTag(t, "admin-ish (no-guard)")

\* setOwner guarded only by an inline check is tagged guarded-inline, admin-ish
\* and nothing else.
InlineGuardedSetter ==
    /\ EntrypointsReturned
    /\ \E k \in 1..Len(eps) :
          /\ eps[k].name = N_setOwner
          /\ eps[k].modifiers = <<>>
          /\ eps[k].tags = <<"guarded-inline", "admin-ish">>

(* C24: _parse_src_field yields (0,0) for every string that is not a       *)
(* well-formed start:length:fileIndex triplet, and for every location      *)
(* string the start and the length stored on the function record are       *)
(* non-negative integers.                                                  *)
LocationsNonNegative ==
    /\ \A n \in 1..Len(contracts) : \A j \in 1..Len(contracts[n].functions) :
          /\ contracts[n].functions[j].src_start >= 0
          /\ contracts[n].functions[j].src_len >= 0
    /\ \A i \in 1..Len(files) :
          files[i].ast.found =>
              \A a \in 1..Len(files[i].ast.root.nodes) :
                  LET cn == files[i].ast.root.nodes[a]
                  IN  cn.nodeType = "ContractDefinition" =>
                          \A b \in 1..Len(cn.nodes) :
                              LET parts == Split(cn.nodes[b].src, ":")
                              IN  (/\ cn.nodes[b].nodeType = "FunctionDefinition"
                                   /\ Len(parts) # 3) =>
                                      _parse_src_field(cn.nodes[b].src) = <<0, 0>>

(* C25: a function whose location is unknown (start <= 0 or length <= 0),  *)
(* and which is not declared in a known file other than its contract's,    *)
(* raises no error: if eligible it is emitted by collect_entrypoints with   *)
(* none of guarded-inline, calls-out and delegatecall, and collect_sinks    *)
(* emits nothing for it.                                                    *)
UnknownLocationTagging ==
    EntrypointsReturned =>
        \A i \in 1..Len(contracts) : \A j \in 1..Len(contracts[i].functions) :
            LET c == contracts[i]
                fi == c.functions[j]
            IN  ((fi.src_start <= 0 \/ fi.src_len <= 0) /\ ~InheritedFromOtherFile(c, fi)) =>
                    /\ Eligible(fi) => Appears(c, fi)
                    /\ \A k \in 1..Len(eps) :
                          Describes(eps[k], c, fi) =>
                              /\ ~HasTag(eps[k].tags, "guarded-inline")
                              /\ ~HasTag(eps[k].tags, "calls-out")
                              /\ ~HasTag(eps[k].tags, "delegatecall")
                    /\ SinksReturned =>
                          \A k \in 1..Len(sks) : ~SinkDescribes(sks[k], c, fi)

\* A function recorded at offset 0 of a text that starts with a low-level call
\* was emitted as an entrypoint and not as a sink.
UnknownLocationEmitted ==
    /\ SinksReturned
    /\ \E i \in 1..Len(contracts) : \E j \in 1..Len(contracts[i].functions) :
          LET c == contracts[i]
              fi == c.functions[j]
          IN  /\ fi.src_start = 0
              /\ fi.src_len > 0
              /\ c.file \in DOMAIN src_by_file
              /\ HasCallMarker(src_by_file[c.file])
              /\ ~InheritedFromOtherFile(c, fi)
              /\ Appears(c, fi)
              /\ \A k \in 1..Len(sks) : ~SinkDescribes(sks[k], c, fi)

AccessTags == {"for-all", "guarded", "guarded-inline"}

EntrypointTagVocabulary ==
    AccessTags \cup {"value", "admin-ish", "admin-ish (no-guard)", "calls-out", "delegatecall"}

\* position of a tag in the documented order
TagRank(t) ==
    IF t \in AccessTags THEN 0
    ELSE IF t = "value" THEN 1
    ELSE IF t \in {"admin-ish", "admin-ish (no-guard)"} THEN 2
    ELSE IF t = "calls-out" THEN 3
    ELSE 4

(* C26: every entrypoint tag list is non-empty, has no duplicates, starts  *)
(* with exactly one access tag (for-all, guarded, guarded-inline) and keeps *)
(* the order access tag, value, admin tag, calls-out, delegatecall; every   *)
(* tag belongs to the documented vocabulary.                                *)
TagListWellFormed ==
    \A k \in 1..Len(eps) :
        LET t == eps[k].tags
        IN  /\ Len(t) >= 1
            /\ t[1] \in AccessTags
            /\ \A a \in 1..Len(t) : t[a] \in EntrypointTagVocabulary
            /\ \A a \in 2..Len(t) : t[a] \notin AccessTags
            /\ \A a \in 1..Len(t) : \A b \in (a + 1)..Len(t) : TagRank(t[a]) < TagRank(t[b])

\* A guarded, payable setter with a delegatecall carries all five kinds of tag.
FullTagListEmitted ==
    /\ EntrypointsReturned
    /\ \E k \in 1..Len(eps) :
          eps[k].tags = <<"guarded", "value", "admin-ish", "calls-out", "delegatecall">>

----------------------------------------------------------------------------
(* Properties of the index command (checked under SpecCli).                *)

Exited == pc = "exit"

\* the primary producer reported a diagnostic of severity error or fatal
SevereDiagnosticReported ==
    /\ arg.solc.valid_json
    /\ \E i \in 1..Len(arg.solc.errors) : arg.solc.errors[i].severity \in {"error", "fatal"}

(* C27: in the index command the report is built from the solc tree        *)
(* exactly when the primary producer reported no diagnostic of severity    *)
(* error or fatal; a diagnostic of one of these severities makes the       *)
(* command fall back to Slither, and other output of the producer never    *)
(* does.                                                                   *)
FallbackIffSevereDiagnostic ==
    (Exited /\ report.source # "none") =>
        (report.source = "solc" <=> ~SevereDiagnosticReported)

(* C28: without --full the function lists of the contracts in the report   *)
(* contain only public and external functions, on the solc path and on the *)
(* Slither fallback path alike.                                            *)
PublicSurfaceWithoutFull ==
    (Exited /\ ~opts.full /\ "contracts" \in DOMAIN report.payload) =>
        \A n \in 1..Len(report.payload.contracts) :
            \A j \in 1..Len(report.payload.contracts[n].functions) :
                report.payload.contracts[n].functions[j].visibility \in {"public", "external"}

\* the entrypoint collected by the run is in the payload written
Shown(ep) ==
    \E j \in 1..Len(report.payload.entrypoints) : report.payload.entrypoints[j] = ep

(* C29: in entrypoints mode the entrypoints of libraries are dropped from  *)
(* the report unless --include-libraries is given, and those of interfaces *)
(* unless --include-interfaces is given; with the flag they are kept, on   *)
(* both paths.                                                             *)
EntrypointKindsFollowFlags ==
    (Exited /\ "entrypoints" \in DOMAIN report.payload) =>
        \A k \in 1..Len(eps) :
            /\ eps[k].contract_kind = "library" => (Shown(eps[k]) <=> opts.include_libraries)
            /\ eps[k].contract_kind = "interface" => (Shown(eps[k]) <=> opts.include_interfaces)
            /\ eps[k].contract_kind = "contract" => Shown(eps[k])

\* what index() writes when no Spinner is involved: a function of the files,
\* the flags and the answers of solc and Slither
ResultWithoutSpinner ==
    IF opts.entrypoints /\ opts.sinks THEN Exit(2, "none", <<>>)
    ELSE IF files = <<>> THEN Exit(0, "none", <<>>)
    ELSE LET ast_res == parse_ast(arg.solc)
         IN  IF fatal_errors(ast_res.errors) = <<>>
             THEN Exit(0, "solc",
                       SolcPayload(build_index(FilesWithTrees(files, ast_res.ast_by_file), opts),
                                   opts))
             ELSE IF opts.sinks THEN Exit(2, "slither", <<>>)
             ELSE LET cs == InScope(build_index_with_slither(arg.slither), files)
                      es == IF opts.entrypoints
                            THEN collect_entrypoints(cs, ReadTexts(cs, files))
                            ELSE <<>>
                      kept == NonEmptyContracts(IF opts.full THEN cs ELSE PublicSurface(cs))
                  IN  Exit(0, "slither", SlitherPayload(files, kept, OfContractsOnly(es), opts))

\* every access to a Spinner's message is made by the holder of its lock
MessageUnderLock ==
    /\ pc = "update" => spinner[Current].lock = "main"
    /\ \A k \in 1..Len(spinner) :
          /\ spinner[k].thread = "read" => spinner[k].lock = "thread"
          /\ spinner[k].lock = "thread" => spinner[k].thread = "read"
          /\ spinner[k].lock = "main" => (k = Current /\ pc = "update")

\* stop() was called on the k-th Spinner after its thread was started
Stopped(k) ==
    /\ k <= Len(spinner)
    /\ spinner[k].stop
    /\ spinner[k].thread # "none"

LeftTheLoop(k) ==
    /\ k <= Len(spinner)
    /\ spinner[k].thread = "exited"

====
